---- MODULE Spec2Model ----
(***************************************************************************)
(* Disk-resident hash index over a delimited text record store             *)
(* (tuli-pen/SO_Practica_1): build_index (index2.c), the worker's          *)
(* search_by_title_and_update and csv_get_column (search_worker.c), and    *)
(* search_by_keyword (index2.c).                                           *)
(*                                                                         *)
(* A C string is a sequence of one-character strings without the           *)
(* terminating NUL.  A file is the sequence of its bytes; a file position  *)
(* is a 0-based byte offset, as ftell reports it.                          *)
(*                                                                         *)
(* Environment of Spec: every fseek, fread and fwrite on a stream that was *)
(* opened succeeds; opening a file fails when the file is absent, and      *)
(* creating the index file may fail.                                       *)
(***************************************************************************)
EXTENDS Integers, Sequences, FiniteSets, TLC

(***************************************************************************)
(* Characters and <ctype.h> / <strings.h>                                  *)
(***************************************************************************)
UpperCase ==
  <<"A","B","C","D","E","F","G","H","I","J","K","L","M",
    "N","O","P","Q","R","S","T","U","V","W","X","Y","Z">>

LowerCase ==
  <<"a","b","c","d","e","f","g","h","i","j","k","l","m",
    "n","o","p","q","r","s","t","u","v","w","x","y","z">>

\* The printable ASCII characters of codes 32..95, in code order.
Printable ==
  <<" ","!","\"","#","$","%","&","'","(",")","*","+",",","-",".","/",
    "0","1","2","3","4","5","6","7","8","9",":",";","<","=",">","?",
    "@","A","B","C","D","E","F","G","H","I","J","K","L","M","N","O",
    "P","Q","R","S","T","U","V","W","X","Y","Z","[","\\","]","^","_">>

\* The character code of c (unsigned char); the record stores of this model
\* hold letters, digits, punctuation of codes 32..95 and line/blank controls.
Ord(c) ==
  IF c = "\t" THEN 9
  ELSE IF c = "\n" THEN 10
  ELSE IF c = "\f" THEN 12
  ELSE IF c = "\r" THEN 13
  ELSE IF \E i \in 1..26 : LowerCase[i] = c
       THEN 96 + (CHOOSE i \in 1..26 : LowerCase[i] = c)
  ELSE 31 + (CHOOSE i \in 1..Len(Printable) : Printable[i] = c)

isspace(c) == c \in {" ", "\t", "\n", "\f", "\r"}

tolower(c) ==
  IF \E i \in 1..26 : UpperCase[i] = c
  THEN LowerCase[CHOOSE i \in 1..26 : UpperCase[i] = c]
  ELSE c

\* strcasecmp(a, b) == 0
strcasecmp_eq(a, b) ==
  /\ Len(a) = Len(b)
  /\ \A i \in 1..Len(a) : tolower(a[i]) = tolower(b[i])

\* strncasecmp(p, needle, n) == 0 where p is the suffix of hay that starts at
\* index i and has at least n characters.
strncasecmp_eq(hay, i, needle, n) ==
  \A j \in 1..n : tolower(hay[i + j - 1]) = tolower(needle[j])

\* ci_strcasestr(haystack, needle) != NULL
ci_strcasestr(haystack, needle) ==
  IF Len(needle) = 0 THEN TRUE
  ELSE \E i \in 1..Len(haystack) :
         /\ Len(haystack) - i + 1 >= Len(needle)
         /\ strncasecmp_eq(haystack, i, needle, Len(needle))

Min(S) == CHOOSE x \in S : \A y \in S : x <= y

\* The first n characters of s (all of s when it is shorter).
Take(s, n) == SubSeq(s, 1, IF Len(s) < n THEN Len(s) ELSE n)

\* s without its first n characters.
Drop(s, n) == SubSeq(s, n + 1, Len(s))

(***************************************************************************)
(* Program constants                                                       *)
(***************************************************************************)
N_BUCKETS == 1000

KEY_SIZE == 256

\* RANGE of index2.c and BUCKET_RANGE of search_worker.c
BUCKET_RANGE == 12

\* MAX_RESULTS of search_worker.c; the literal 50 of search_by_keyword
MAX_RESULTS == 50

\* char line[4096] of build_index and of search_by_keyword
LINE_SIZE == 4096

\* MAX_LINE of search_worker.c (linebuf of search_by_title_and_update)
MAX_LINE == 8192

\* sizeof(res.result): the resp_sz the worker passes
RESP_SIZE == 2048

\* char parsed_update[64]
UPDATE_SIZE == 64

\* The ordinal of the key column (title) and of the update_date column.
KEY_COL == 4

UPDATE_COL == 12

\* LP64 sizes of the three on-disk structures.
SizeofIndexHeader == 24

SizeofBucketDisk == 8

SizeofEntryDisk == KEY_SIZE + 16

(***************************************************************************)
(* Text utilities                                                          *)
(***************************************************************************)
RECURSIVE StripLeft(_)
StripLeft(s) ==
  IF Len(s) > 0 /\ isspace(s[1]) THEN StripLeft(Tail(s)) ELSE s

RECURSIVE StripRight(_)
StripRight(s) ==
  IF Len(s) > 0 /\ isspace(s[Len(s)])
  THEN StripRight(SubSeq(s, 1, Len(s) - 1))
  ELSE s

\* trim_inplace: whitespace removed at both ends.
trim_inplace(s) == StripRight(StripLeft(s))

\* limpiar_texto: one leading quote removed, then one trailing quote, then
\* trailing whitespace.
limpiar_texto(s) ==
  IF Len(s) = 0 THEN s
  ELSE LET a == IF s[1] = "\"" THEN Tail(s) ELSE s
           b == IF Len(a) > 0 /\ a[Len(a)] = "\""
                THEN SubSeq(a, 1, Len(a) - 1)
                ELSE a
       IN  StripRight(b)

\* A copy that does not stop at n characters.
strcpy_whole(src, n) == src

\* strncpy(dst, src, n) into a zeroed buffer: the first n characters.
strncpy(src, n) == Take(src, n)

IsEol(c) == c \in {"\n", "\r"}

\* The character at 1-based index p, or "" (NUL) past the end of the string.
At(line, p) == IF p >= 1 /\ p <= Len(line) THEN line[p] ELSE ""

\* The quoted target field: p is the index after the opening quote.  A doubled
\* quote gives one quote, the first lone quote ends the field; characters that
\* do not fit in out (out_sz) are dropped.
RECURSIVE QuotedField(_, _, _, _)
QuotedField(line, p, out, out_sz) ==
  IF At(line, p) = "" THEN out
  ELSE IF line[p] = "\""
       THEN IF At(line, p + 1) = "\""
            THEN QuotedField(line, p + 2,
                             IF Len(out) + 1 < out_sz THEN Append(out, "\"") ELSE out,
                             out_sz)
            ELSE out
       ELSE QuotedField(line, p + 1,
                        IF Len(out) + 1 < out_sz THEN Append(out, line[p]) ELSE out,
                        out_sz)

\* The index of the first character at or after p that ends an unquoted field
\* (a comma, an end-of-line character or the end of the string).
FieldEnd(line, p) ==
  Min({i \in p..(Len(line) + 1) :
         At(line, i) = "" \/ line[i] = "," \/ IsEol(line[i])})

\* Skipping a quoted field that is not the target: p is the index after the
\* opening quote; the result is the index after the closing quote.
RECURSIVE SkipQuoted(_, _)
SkipQuoted(line, p) ==
  IF At(line, p) = "" THEN p
  ELSE IF line[p] = "\"" /\ At(line, p + 1) # "\"" THEN p + 1
  ELSE IF line[p] = "\"" /\ At(line, p + 1) = "\"" THEN SkipQuoted(line, p + 2)
  ELSE SkipQuoted(line, p + 1)

\* The main loop of csv_get_column from position p in column col.
RECURSIVE CsvScan(_, _, _, _, _)
CsvScan(line, p, col, target_col, out_sz) ==
  IF At(line, p) = "" \/ IsEol(line[p])
  THEN [ret |-> 0, out |-> <<>>]
  ELSE IF col = target_col
       THEN IF line[p] = "\""
            THEN [ret |-> 1,
                  out |-> trim_inplace(QuotedField(line, p + 1, <<>>, out_sz))]
            ELSE LET e   == FieldEnd(line, p)
                     len == IF e - p >= out_sz THEN out_sz - 1 ELSE e - p
                 IN  [ret |-> 1,
                      out |-> trim_inplace(SubSeq(line, p, p + len - 1))]
       ELSE LET q == IF line[p] = "\"" THEN SkipQuoted(line, p + 1)
                     ELSE FieldEnd(line, p)
            IN  IF At(line, q) = ","
                THEN CsvScan(line, q + 1, col + 1, target_col, out_sz)
                ELSE CsvScan(line, q, col, target_col, out_sz)

\* csv_get_column(line, target_col, out, out_sz): ret is the return value and
\* out the content of the output buffer.
csv_get_column(line, target_col, out_sz) ==
  CsvScan(line, 1, 1, target_col, out_sz)

(***************************************************************************)
(* <stdio.h> and <string.h> on a record store                              *)
(***************************************************************************)
\* fgets(buf, size, f) with f at offset pos of data: at most size - 1
\* characters, ending after the first newline.  ok is FALSE at end of file.
fgets(data, pos, size) ==
  IF pos >= Len(data) THEN [ok |-> FALSE, line |-> <<>>, pos |-> pos]
  ELSE LET limit == IF Len(data) < pos + size - 1 THEN Len(data) ELSE pos + size - 1
           nls   == {i \in (pos + 1)..limit : data[i] = "\n"}
           end   == IF nls = {} THEN limit ELSE Min(nls)
       IN  [ok |-> TRUE, line |-> SubSeq(data, pos + 1, end), pos |-> end]

\* The delimiters build_index passes to strtok.
StrtokDelims == {",", "\n", "\r"}

\* The n-th token strtok yields on line: tokens are the maximal runs of
\* characters that are not delimiters, so empty fields yield no token.
strtok_nth(line, n) ==
  LET starts == {i \in 1..Len(line) :
                   /\ line[i] \notin StrtokDelims
                   /\ (i = 1 \/ line[i - 1] \in StrtokDelims)}
  IN  IF Cardinality(starts) < n THEN [found |-> FALSE, token |-> <<>>]
      ELSE LET b == CHOOSE i \in starts :
                      Cardinality({j \in starts : j < i}) = n - 1
               e == Min({j \in b..Len(line) :
                           j = Len(line) \/ line[j + 1] \in StrtokDelims})
           IN  [found |-> TRUE, token |-> SubSeq(line, b, e)]

\* The modulus of the running hash.  hash.c is not among the sources at hand;
\* it works in unsigned long, and the hash is kept below 2^24 here so that
\* h * 33 + c stays inside the 32-bit integers of TLC.
HASH_WORD == 16777216

\* The hash after the bytes s[lo..hi] were taken in, in order, starting from h.
\* The range is halved, and the first half is evaluated before the second is
\* entered, so that long keys need no deep nesting; no hash is negative.
RECURSIVE HashFrom(_, _, _, _)
HashFrom(s, lo, hi, h) ==
  IF lo > hi THEN h
  ELSE IF lo = hi THEN (h * 33 + Ord(s[lo])) % HASH_WORD
  ELSE LET mid  == (lo + hi) \div 2
           left == HashFrom(s, lo, mid, h)
       IN  IF left < 0 THEN left ELSE HashFrom(s, mid + 1, hi, left)

\* hash_string of hash.c: a multiplicative string hash over the bytes of the
\* key exactly as given (case is not folded).
hash_string(s) == HashFrom(s, 1, Len(s), 5381)

(***************************************************************************)
(* The index file                                                          *)
(***************************************************************************)
\* An absent index file.  bad is the set of byte offsets of a file at which
\* fseek or fread fails.
NoIndex ==
  [exists  |-> FALSE,
   header  |-> [n_buckets |-> 0, offset_buckets |-> 0, offset_entries |-> 0],
   heads   |-> <<>>,
   entries |-> <<>>,
   bad     |-> {}]

\* The file after fopen(index_path, "wb+") and the writes of the header and of
\* N_BUCKETS empty bucket slots.  heads maps the slots that hold an entry
\* offset; every other slot holds -1.
EmptyIndex ==
  [exists  |-> TRUE,
   header  |-> [n_buckets      |-> N_BUCKETS,
                offset_buckets |-> SizeofIndexHeader,
                offset_entries |-> SizeofIndexHeader + SizeofBucketDisk * N_BUCKETS],
   heads   |-> <<>>,
   entries |-> <<>>,
   bad     |-> {}]

\* The length of a file whose bucket table was never written.
FileLengthNoTable(f) == SizeofIndexHeader + SizeofEntryDisk * Len(f.entries)

\* The length of the index file in bytes.
FileLength(f) ==
  SizeofIndexHeader + SizeofBucketDisk * N_BUCKETS + SizeofEntryDisk * Len(f.entries)

\* The bucket slot read at SizeofIndexHeader + SizeofBucketDisk * b.
ReadBucket(f, b) == IF b \in DOMAIN f.heads THEN f.heads[b] ELSE -1

\* fseek to offset 0 and fread of the IndexHeader succeed.
HeaderReadable(f) == 0 \notin f.bad

\* fseek to bucket slot b and fread of one BucketDisk succeed.
SlotReadable(f, b) == (SizeofIndexHeader + SizeofBucketDisk * b) \notin f.bad

\* The byte offset of the k-th entry written.
EntryOffset(k) ==
  SizeofIndexHeader + SizeofBucketDisk * N_BUCKETS + SizeofEntryDisk * (k - 1)

\* The bucket slots the writer of file f laid down: as many as the header
\* counts, and the N_BUCKETS of build_index under a header that counts none.
TableSlots(f) ==
  IF f.header.n_buckets <= 0 THEN N_BUCKETS ELSE f.header.n_buckets

\* Where the entries of file f start: after the header and the bucket slots
\* its writer laid down.  In a file build_index wrote this is EntryOffset(1).
EntryRegion(f) == SizeofIndexHeader + SizeofBucketDisk * TableSlots(f)

\* A read that takes no notice of the failure of fseek or fread.
EntryReadableAnyway(f, off) ==
  /\ off >= EntryRegion(f)
  /\ (off - EntryRegion(f)) % SizeofEntryDisk = 0
  /\ (off - EntryRegion(f)) \div SizeofEntryDisk < Len(f.entries)

\* fseek to byte offset off and fread of one EntryDisk succeed: off is where
\* an entry of the file starts, and neither call fails there.
EntryReadable(f, off) ==
  /\ off \notin f.bad
  /\ off >= EntryRegion(f)
  /\ (off - EntryRegion(f)) % SizeofEntryDisk = 0
  /\ (off - EntryRegion(f)) \div SizeofEntryDisk < Len(f.entries)

ReadEntry(f, off) == f.entries[(off - EntryRegion(f)) \div SizeofEntryDisk + 1]

\* An insertion that does not link the new entry to the old head.
InsertEntryUnlinked(f, key, line_start) ==
  LET h == hash_string(key) % N_BUCKETS
  IN  [f EXCEPT !.entries = Append(f.entries,
                                   [key        |-> strncpy(key, KEY_SIZE - 1),
                                    csv_offset |-> line_start,
                                    next_entry |-> -1]),
                !.heads   = [i \in DOMAIN f.heads \cup {h} |->
                               IF i = h THEN FileLength(f) ELSE f.heads[i]]]

\* One insertion of build_index: the bucket slot is read, the entry is written
\* at the end of the file and the slot is overwritten with its offset.
InsertEntry(f, key, line_start) ==
  LET h                == hash_string(key) % N_BUCKETS
      b                == ReadBucket(f, h)
      entry            == [key        |-> strncpy(key, KEY_SIZE - 1),
                           csv_offset |-> line_start,
                           next_entry |-> b]
      new_entry_offset == FileLength(f)
  IN  [f EXCEPT !.entries = Append(f.entries, entry),
                !.heads   = [i \in DOMAIN f.heads \cup {h} |->
                               IF i = h THEN new_entry_offset ELSE f.heads[i]]]

\* The body of the loop of build_index for the line read at line_start.
BuildLineStep(f, line, line_start) ==
  LET t == strtok_nth(line, KEY_COL)
  IN  IF ~t.found THEN f
      ELSE InsertEntry(f, limpiar_texto(t.token), line_start)

\* One iteration of the loop of build_index on b = [pos, f]; nothing changes
\* once fgets meets the end of the file.
BuildIter(data, b) ==
  LET g == fgets(data, b.pos, LINE_SIZE)
  IN  IF ~g.ok THEN b
      ELSE [pos |-> g.pos, f |-> BuildLineStep(b.f, g.line, b.pos)]

\* n iterations of the loop.  The count is halved, and the first half is
\* evaluated before the second is entered, to keep the nesting shallow; no
\* position is negative.
RECURSIVE BuildIters(_, _, _)
BuildIters(data, b, n) ==
  IF n = 0 THEN b
  ELSE IF n = 1 THEN BuildIter(data, b)
  ELSE LET first == BuildIters(data, b, n \div 2)
       IN  IF first.pos < 0 THEN first
           ELSE BuildIters(data, first, n - n \div 2)

\* No run of fgets over data yields more pieces than this.
MaxChunks(data) ==
  Cardinality({i \in 1..Len(data) : data[i] = "\n"}) + Len(data) \div (LINE_SIZE - 1) + 1

\* build_index from position pos (after the header line) to the end of the
\* record store: the index file a complete run leaves.
BuildFrom(data, pos, f) == BuildIters(data, [pos |-> pos, f |-> f], MaxChunks(data)).f

(***************************************************************************)
(* search_by_title_and_update (search_worker.c)                            *)
(***************************************************************************)
\* The secondary filter on the record line: update is the filter value, empty
\* when the caller passes NULL or "".
pass_update(linebuf, update) ==
  IF Len(update) = 0 THEN TRUE
  ELSE LET c == csv_get_column(linebuf, UPDATE_COL, UPDATE_SIZE)
       IN  c.ret # 0 /\ strcasecmp_eq(c.out, update)

\* A loop that goes on however many results were accepted.
TitleCapAlwaysOpen(found) == TRUE

\* The loop bound of both loops of search_by_title_and_update.
TitleCapOpen(found) == found < MAX_RESULTS

\* A search that counts the entries its filter rejects.
TitleEntryCountingRejected(data, entry, st, title, update, resp_sz) ==
  IF ~ci_strcasestr(entry.key, title) THEN st
  ELSE LET g == fgets(data, entry.csv_offset, MAX_LINE)
       IN  IF entry.csv_offset < 0 \/ ~g.ok THEN st
           ELSE IF ~pass_update(g.line, update) THEN [st EXCEPT !.found = @ + 1]
           ELSE IF st.used + Len(g.line) + 1 < resp_sz
                THEN [st EXCEPT !.found = @ + 1,
                                !.used  = @ + Len(g.line),
                                !.lines = Append(@, g.line)]
                ELSE [st EXCEPT !.stop = TRUE]

\* One entry of a chain: st is [found, used, lines, reads, stop, current];
\* stop is the jump to FINISH_SEARCH.
TitleEntry(data, entry, st, title, update, resp_sz) ==
  IF ~ci_strcasestr(entry.key, title) THEN st
  ELSE LET g == fgets(data, entry.csv_offset, MAX_LINE)
       IN  IF entry.csv_offset < 0 \/ ~g.ok THEN st
           ELSE IF ~pass_update(g.line, update) THEN st
           ELSE IF st.used + Len(g.line) + 1 < resp_sz
                THEN [st EXCEPT !.found = @ + 1,
                                !.used  = @ + Len(g.line),
                                !.lines = Append(@, g.line)]
                ELSE [st EXCEPT !.stop = TRUE]

\* One iteration of the while loop over a chain; nothing changes once the loop
\* has ended.  An entry that cannot be read ends the chain.
TitleChainIter(f, data, st, title, update, resp_sz) ==
  IF st.current = -1 \/ ~TitleCapOpen(st.found) \/ st.stop THEN st
  ELSE IF ~EntryReadable(f, st.current) THEN [st EXCEPT !.current = -1]
  ELSE LET entry == ReadEntry(f, st.current)
       IN  [TitleEntry(data, entry, st, title, update, resp_sz)
              EXCEPT !.current = entry.next_entry]

\* n iterations of the while loop.  The count is halved, and the first half is
\* evaluated before the second is entered, to keep the nesting shallow; found
\* is never negative.
RECURSIVE TitleChainIters(_, _, _, _, _, _, _)
TitleChainIters(f, data, st, n, title, update, resp_sz) ==
  IF n = 0 THEN st
  ELSE IF n = 1 THEN TitleChainIter(f, data, st, title, update, resp_sz)
  ELSE LET first == TitleChainIters(f, data, st, n \div 2, title, update, resp_sz)
       IN  IF first.found < 0 THEN first
           ELSE TitleChainIters(f, data, first, n - n \div 2, title, update, resp_sz)

\* The while loop from the bucket's head: a chain of a file of n entries that
\* links no entry twice ends within n iterations.
TitleChain(f, data, current, st, title, update, resp_sz) ==
  TitleChainIters(f, data, [st EXCEPT !.current = current], Len(f.entries),
                  title, update, resp_sz)

\* A window that is not clipped to the bucket table.
BucketUnclipped(bucket_idx, n_buckets) == TRUE

\* bucket_idx is skipped when it lies outside the bucket table.
BucketInTable(bucket_idx, n_buckets) == bucket_idx >= 0 /\ bucket_idx < n_buckets

\* The body of the for loop for offset off.
TitleBucket(f, data, h, n_buckets, off, st, title, update, resp_sz) ==
  IF ~TitleCapOpen(st.found) \/ st.stop THEN st
  ELSE LET bucket_idx == h + off
       IN  IF ~BucketInTable(bucket_idx, n_buckets) THEN st
           ELSE IF ~SlotReadable(f, bucket_idx) THEN st
           ELSE TitleChain(f, data, ReadBucket(f, bucket_idx),
                           [st EXCEPT !.reads = Append(@, bucket_idx)],
                           title, update, resp_sz)

\* The for loop over the offsets lo..hi, in ascending order.
RECURSIVE TitleBuckets(_, _, _, _, _, _, _, _, _, _)
TitleBuckets(f, data, h, n_buckets, lo, hi, st, title, update, resp_sz) ==
  IF lo > hi THEN st
  ELSE IF lo = hi
       THEN TitleBucket(f, data, h, n_buckets, lo, st, title, update, resp_sz)
  ELSE LET mid == (lo + hi + 2 * BUCKET_RANGE) \div 2 - BUCKET_RANGE
           first == TitleBuckets(f, data, h, n_buckets, lo, mid, st, title, update, resp_sz)
       IN  IF first.found < 0 THEN first
           ELSE TitleBuckets(f, data, h, n_buckets, mid + 1, hi, first,
                             title, update, resp_sz)

\* An empty answer reported as an error.
TitleReturnEmptyAsError(found) == IF found = 0 THEN -1 ELSE found

\* The value search_by_title_and_update returns once its loops have ended.
TitleReturn(found) == found

\* fopen of the index file succeeds: the file is there and the open does not
\* fail (offset -1 of bad stands for the open).
Openable(f) == f.exists /\ -1 \notin f.bad

\* The streams fopen(INDEX_FILE, "rb") and fopen(CSV_FILE, "r") yield.
Opened(f, store) ==
  (IF Openable(f) THEN {"idx"} ELSE {}) \cup (IF store.exists THEN {"csv"} ELSE {})

\* A return that closes nothing.
ClosedNothing(f, store) == {}

\* if (idx) fclose(idx); if (csv) fclose(csv);
ClosedOnOpenFailure(f, store) == Opened(f, store)

\* The part of search_by_title_and_update after the index was ensured: f is
\* the index file and store the record store.  ret is the return value, lines
\* the record lines appended to resp_buf in order, reads the bucket slots
\* read, open the streams left open at the return.
search_by_title_and_update(f, store, title, update, resp_sz) ==
  IF ~Openable(f) \/ ~store.exists
  THEN [ret |-> -1, lines |-> <<>>, reads |-> <<>>,
        open |-> Opened(f, store) \ ClosedOnOpenFailure(f, store)]
  ELSE IF ~HeaderReadable(f)
  THEN [ret |-> -1, lines |-> <<>>, reads |-> <<>>,
        open |-> Opened(f, store) \ {"idx", "csv"}]
  ELSE LET n_buckets == IF f.header.n_buckets <= 0 THEN N_BUCKETS
                        ELSE f.header.n_buckets
           h         == hash_string(title) % n_buckets
           st        == TitleBuckets(f, store.data, h, n_buckets,
                          -BUCKET_RANGE, BUCKET_RANGE,
                          [found |-> 0, used |-> 0, lines |-> <<>>,
                           reads |-> <<>>, stop |-> FALSE, current |-> -1],
                          title, update, resp_sz)
       IN  [ret |-> TitleReturn(st.found), lines |-> st.lines, reads |-> st.reads,
            open |-> Opened(f, store) \ {"idx", "csv"}]

(***************************************************************************)
(* search_by_keyword (index2.c)                                            *)
(***************************************************************************)
\* A search that takes every entry it reads for a match.
KeywordMatchAny(key, keyword, exact) == TRUE

\* The test of search_by_keyword on the stored key of an entry.
KeywordMatch(key, keyword, exact) ==
  IF exact THEN strcasecmp_eq(key, keyword) ELSE ci_strcasestr(key, keyword)

\* found >= 50: the jump to FIN.
KeywordCapHit(found) == found >= MAX_RESULTS

KeywordEntry(data, entry, st, keyword, exact) ==
  IF ~KeywordMatch(entry.key, keyword, exact) THEN st
  ELSE LET g       == fgets(data, entry.csv_offset, LINE_SIZE)
           printed == IF entry.csv_offset >= 0 /\ g.ok
                      THEN Append(st.lines, g.line) ELSE st.lines
       IN  [st EXCEPT !.found = @ + 1,
                      !.lines = printed,
                      !.stop  = KeywordCapHit(st.found + 1)]

\* One iteration of the while loop over a chain; nothing changes once the loop
\* has ended.
KeywordChainIter(f, data, st, keyword, exact) ==
  IF st.current = -1 \/ st.stop THEN st
  ELSE IF ~EntryReadable(f, st.current) THEN [st EXCEPT !.current = -1]
  ELSE LET entry == ReadEntry(f, st.current)
       IN  [KeywordEntry(data, entry, st, keyword, exact)
              EXCEPT !.current = entry.next_entry]

RECURSIVE KeywordChainIters(_, _, _, _, _, _)
KeywordChainIters(f, data, st, n, keyword, exact) ==
  IF n = 0 THEN st
  ELSE IF n = 1 THEN KeywordChainIter(f, data, st, keyword, exact)
  ELSE LET first == KeywordChainIters(f, data, st, n \div 2, keyword, exact)
       IN  IF first.found < 0 THEN first
           ELSE KeywordChainIters(f, data, first, n - n \div 2, keyword, exact)

KeywordChain(f, data, current, st, keyword, exact) ==
  KeywordChainIters(f, data, [st EXCEPT !.current = current], Len(f.entries),
                    keyword, exact)

\* The body of the for loop for offset.
KeywordBucket(f, data, h, offset, st, keyword, exact) ==
  IF st.stop THEN st
  ELSE LET bucket_index == h + offset
       IN  IF ~BucketInTable(bucket_index, N_BUCKETS) THEN st
           ELSE IF ~SlotReadable(f, bucket_index) THEN st
           ELSE KeywordChain(f, data, ReadBucket(f, bucket_index),
                             [st EXCEPT !.reads = Append(@, bucket_index)],
                             keyword, exact)

\* The for loop over the offsets lo..hi, in ascending order.
RECURSIVE KeywordBuckets(_, _, _, _, _, _, _, _)
KeywordBuckets(f, data, h, lo, hi, st, keyword, exact) ==
  IF lo > hi THEN st
  ELSE IF lo = hi THEN KeywordBucket(f, data, h, lo, st, keyword, exact)
  ELSE LET mid == (lo + hi + 2 * BUCKET_RANGE) \div 2 - BUCKET_RANGE
           first == KeywordBuckets(f, data, h, lo, mid, st, keyword, exact)
       IN  IF first.found < 0 THEN first
           ELSE KeywordBuckets(f, data, h, mid + 1, hi, first, keyword, exact)

\* The part of search_by_keyword after the index was ensured.  ret is found
\* (-1 when the function returns before searching), lines the lines printed.
search_by_keyword(f, store, keyword, exact) ==
  IF ~Openable(f) \/ ~store.exists
  THEN [ret |-> -1, lines |-> <<>>, reads |-> <<>>]
  ELSE LET h  == hash_string(keyword) % N_BUCKETS
           st == KeywordBuckets(f, store.data, h,
                   IF exact THEN 0 ELSE -BUCKET_RANGE,
                   IF exact THEN 0 ELSE BUCKET_RANGE,
                   [found |-> 0, used |-> 0, lines |-> <<>>,
                    reads |-> <<>>, stop |-> FALSE, current |-> -1],
                   keyword, exact)
       IN  [ret |-> st.found, lines |-> st.lines, reads |-> st.reads]

(***************************************************************************)
(* Record stores and requests of the model                                 *)
(***************************************************************************)
\* The number of record lines of a store assembled from LibraryLines.
MaxLines == 2

\* The number of lines of BigStore, all with the same key.
DupLines == 51

\* The length of the key of LongKeyStore.
LongKeyLen == 300

\* The length of the update_date column of LongDateStore.
LongDateLen == 70

\* The length of the wide column of the lines of WideStore.
WideLen == 1100

\* The length of the long column of the line of LongLineStore.
LongLineLen == 4100

RECURSIVE Flatten(_)
Flatten(ss) == IF Len(ss) = 0 THEN <<>> ELSE Head(ss) \o Flatten(Tail(ss))

RECURSIVE JoinFields(_)
JoinFields(fs) ==
  IF Len(fs) = 0 THEN <<>>
  ELSE IF Len(fs) = 1 THEN Head(fs)
  ELSE Head(fs) \o <<",">> \o JoinFields(Tail(fs))

\* A record line: the fields separated by commas, ended by a newline.
CsvLine(fs) == JoinFields(fs) \o <<"\n">>

\* A line of twelve columns with the given id, title column and update_date.
Record12(id, title, date) ==
  CsvLine(<< <<id>>, <<"a">>, <<"b">>, title, <<"5">>, <<"6">>, <<"7">>,
             <<"8">>, <<"9">>, <<"x">>, <<"y">>, date >>)

Rep(c, n) == [i \in 1..n |-> c]

HeaderLine == CsvLine(<< <<"i","d">>, <<"t">> >>)

\* title webb
LineA == Record12("1", <<"w","e","b","b">>, <<"d","1">>)

\* title Webty: "web" in another case, hashed near "web"
LineB == Record12("2", <<"W","e","b","t","y">>, <<"d","2">>)

\* a quoted title that holds a comma: "x, y"
LineD == Record12("4", <<"\"","x",","," ","y","\"">>, <<"d","1">>)

\* four columns, the second empty, title kz
LineF == CsvLine(<< <<"6">>, <<>>, <<"b">>, <<"k","z">> >>)

LibraryLines == {LineA, LineB, LineD}

\* title Deep Learning Basics
LineDeepLearning ==
  Record12("1", <<"D","e","e","p"," ","L","e","a","r","n","i","n","g"," ","B","a","s","i","c","s">>,
           <<"d","1">>)

\* title deep space research
LineDeepSpace ==
  Record12("2", <<"d","e","e","p"," ","s","p","a","c","e"," ","r","e","s","e","a","r","c","h">>,
           <<"d","1">>)

\* title Shallow Networks
LineShallow ==
  Record12("3", <<"S","h","a","l","l","o","w"," ","N","e","t","w","o","r","k","s">>,
           <<"d","1">>)

StoreOf(ls) == [exists |-> TRUE, data |-> HeaderLine \o Flatten(ls)]

\* No record store at the path.
AbsentStore == [exists |-> FALSE, data |-> <<>>]

\* A record store of zero bytes.
EmptyStore == [exists |-> TRUE, data |-> <<>>]

\* DupLines lines of the same title.
BigStore ==
  [exists |-> TRUE,
   data   |-> HeaderLine \o [i \in 1..(DupLines * Len(LineA)) |->
                               LineA[((i - 1) % Len(LineA)) + 1]]]

\* A title longer than the key buffer.
LongKeyStore == StoreOf(<< Record12("7", Rep("k", LongKeyLen), <<"d","1">>) >>)

\* A line whose title follows an empty column, then a plain line.
ShortStore == StoreOf(<<LineF, LineA>>)

\* Three titles, two of which contain "deep".
DeepStore == StoreOf(<<LineDeepLearning, LineDeepSpace, LineShallow>>)

\* An update_date column longer than parsed_update.
LongDateStore == StoreOf(<< Record12("8", <<"w","e","b","b">>, Rep("9", LongDateLen)) >>)

\* A line of title webb whose fifth column is WideLen bytes wide.
WideLine(id) ==
  CsvLine(<< <<id>>, <<"a">>, <<"b">>, <<"w","e","b","b">>, Rep("w", WideLen),
             <<"6">>, <<"7">>, <<"8">>, <<"9">>, <<"x">>, <<"y">>, <<"d","1">> >>)

\* Two lines of the same title, each shorter than the response buffer and
\* together longer.
WideStore == StoreOf(<<WideLine("1"), WideLine("2")>>)

\* One record line longer than the line buffer of build_index: its fifth
\* column is LongLineLen bytes long.
LongLineStore ==
  StoreOf(<< CsvLine(<< <<"1">>, <<"a">>, <<"b">>, <<"w","e","b","b">>,
                        Rep("w", LongLineLen), <<"6">>, <<"7">>, <<"8">>, <<"9">>,
                        <<"x">>, <<"y">>, <<"d","1">> >>) >>)

\* One line of title webb with update_date d2, then DupLines lines of the same
\* title with update_date d1: the chain holds the line of d2 last.
FilterStore ==
  [exists |-> TRUE,
   data   |-> HeaderLine \o Record12("0", <<"w","e","b","b">>, <<"d","2">>)
                \o [i \in 1..(DupLines * Len(LineA)) |->
                      LineA[((i - 1) % Len(LineA)) + 1]]]

\* A line whose title column is an empty quoted field, then a plain line.
BlankKeyStore == StoreOf(<< Record12("9", <<"\"","\"">>, <<"d","1">>), LineA >>)

\* One record line longer than the line buffer of build_index, with the text
\* webb in its eighth column as well: the fourth column of what follows the
\* first LINE_SIZE - 1 bytes of the line.
TailKeyStore ==
  StoreOf(<< CsvLine(<< <<"1">>, <<"a">>, <<"b">>, <<"w","e","b","b">>,
                        Rep("w", LongLineLen), <<"6">>, <<"7">>,
                        <<"w","e","b","b">>, <<"9">>, <<"x">>, <<"y">>,
                        <<"d","1">> >>) >>)

Stores ==
  {StoreOf(ls) : ls \in UNION {[1..n -> LibraryLines] : n \in 0..MaxLines}}
    \cup {AbsentStore, EmptyStore, BigStore, LongKeyStore, LongDateStore, ShortStore,
          DeepStore, WideStore, LongLineStore, BlankKeyStore, FilterStore,
          TailKeyStore}

\* The record lines of a store after its first line, as [offset, line]: the
\* text from the start of a line through its newline.
RecordLines(st) ==
  IF ~st.exists THEN {}
  ELSE LET nls == {i \in 1..Len(st.data) : st.data[i] = "\n"}
       IN  {[offset |-> p,
             line   |-> SubSeq(st.data, p + 1,
                               Min({q \in nls : q > p} \cup {Len(st.data)}))] :
              p \in {i \in nls : i < Len(st.data)}}

\* Column n of a record line as the column extractor delimits it, whole.
ColumnOf(line, n) == csv_get_column(line, n, Len(line) + 1)

\* A line bears a key when its title column is present and not empty.
KeyBearing(line) ==
  ColumnOf(line, KEY_COL).ret = 1 /\ Len(ColumnOf(line, KEY_COL).out) > 0

\* The key of a key-bearing line: its title column, cleaned.
KeyOf(line) == limpiar_texto(ColumnOf(line, KEY_COL).out)

\* The titles the worker is asked for.
Titles ==
  { <<"w","e","b">>, <<"l","o","g">>, <<"z","z","z">>, <<"d","e","e","p">> }

\* The update_date filters: none, one that no record carries, and the
\* update_date of each record as it fits the worker's update_val buffer.
Updates(st) ==
  { <<>>, <<"d","9">> }
    \cup {Take(c.out, UPDATE_SIZE - 1) :
            c \in {x \in {ColumnOf(r.line, UPDATE_COL) : r \in RecordLines(st)} :
                     x.ret = 1}}

\* The keywords of search_by_keyword: the key of every key-bearing line.
Keywords(st) ==
  { <<"w","e","b">> }
    \cup {limpiar_texto(c.out) :
            c \in {x \in {ColumnOf(r.line, KEY_COL) : r \in RecordLines(st)} :
                     x.ret = 1 /\ Len(x.out) > 0}}

(***************************************************************************)
(* The worker process as a state machine                                   *)
(***************************************************************************)
VARIABLES
  store,      \* the record store (arxiv.csv): never written
  idx,        \* the index file (index.bin)
  pc,         \* "idle", "build" (inside the loop of build_index), "search"
  req,        \* the call in progress, or the last call made
  csv_pos,    \* the position of build_index's csv stream
  build_ret,  \* the value the last build_index call returned: <<>>, <<0>>, <<-1>>
  prior,      \* the index file as the last build_index call found it
  res,        \* the outcome of the last search
  request,    \* the Request the worker's main read last
  response,   \* Response.result as main wrote it last
  readers,    \* the searches in progress of concurrent reader processes
  csv_call,   \* the arguments of the last call of the column extractor
  csv_result, \* what that call returned
  streams,    \* the streams the last search left open, where that is followed
  ui,         \* the front end: its position, its two buffers, its Request and Response
  daemon,     \* the position of the worker in the loop of main, and its last read
  fifos,      \* the two FIFOs: open ends, bytes in flight, opens that met a partner
  sent        \* how many searches were started, Requests and Responses written

vars == <<store, idx, pc, req, csv_pos, build_ret, prior, res,
          request, response, readers, csv_call, csv_result, streams,
          ui, daemon, fifos, sent>>

\* The variables that the calls of build_index and of the two searches, made
\* one at a time, leave alone.
side_vars == <<request, response, readers, csv_call, csv_result, streams,
               ui, daemon, fifos, sent>>

\* No Request was read yet.
NoRequest == [field_name1 |-> <<>>, value1 |-> <<>>, field_name2 |-> <<>>, value2 |-> <<>>]

\* The column extractor was not called yet.
NoCall == [line |-> <<>>, target_col |-> 0, out_sz |-> 0]

NoResult == [ret |-> 0, out |-> <<>>]

\* A FIFO: whether its path exists, how many read and write ends are open
\* (an open that waits for its partner counts), the messages written and not
\* yet read, and whether the pending open for reading (rmet) or for writing
\* (wmet) has met a partner.
NewFifo(there) ==
  [exists |-> there, readers |-> 0, writers |-> 0, buf |-> <<>>,
   rmet |-> FALSE, wmet |-> FALSE]

\* The front end at its menu, with both buffers empty.
UiAtMenu ==
  [pc |-> "menu", title_buf |-> <<>>, date_buf |-> <<>>,
   req |-> NoRequest, res |-> <<>>, ok |-> 0]

\* The worker at the top of the loop of main.
DaemonAtTop == [pc |-> "open_req", rr |-> 0]

IpcInit ==
  /\ ui = UiAtMenu
  /\ daemon = DaemonAtTop
  /\ fifos = [req |-> NewFifo(FALSE), res |-> NewFifo(FALSE)]
  /\ sent = [searches |-> 0, requests |-> 0, responses |-> 0]

\* The side variables before anything has run.
SideInit ==
  /\ request = NoRequest
  /\ response = <<>>
  /\ readers = <<>>
  /\ csv_call = NoCall
  /\ csv_result = NoResult
  /\ streams = {}
  /\ IpcInit

NoReq == [op |-> "none", key |-> <<>>, update |-> <<>>, exact |-> FALSE, built |-> FALSE]

NoRes == [op |-> "none", ret |-> 0, lines |-> <<>>, reads |-> <<>>]

\* The outcome of a search that returns before it searches.
FailedRes(op) == [op |-> op, ret |-> -1, lines |-> <<>>, reads |-> <<>>]

Init ==
  /\ store \in Stores
  /\ idx = NoIndex
  /\ pc = "idle"
  /\ req = NoReq
  /\ csv_pos = 0
  /\ build_ret = <<>>
  /\ prior = NoIndex
  /\ res = NoRes
  /\ SideInit

\* A search that rebuilds the index whether or not its file is there.
IndexAlwaysMissing(f) == TRUE

\* access(INDEX_FILE, F_OK) != 0; fopen(index_file, "rb") == NULL
IndexMissing(f) == ~f.exists

\* The index file opened without truncation: what it held stays.
CreateIndexKeeping(f) == IF f.exists THEN f ELSE EmptyIndex

\* fopen(index_path, "wb+") followed by the header and the empty bucket slots:
\* whatever the file held is gone.
CreateIndex(f) == EmptyIndex

\* build_index up to its loop, called for request r: both files are opened,
\* the header and the bucket table are written and the first line is skipped.
\* creatable tells whether fopen(index_path, "wb+") succeeds.
BuildEnter(r, creatable) ==
  /\ prior' = idx
  /\ IF ~store.exists \/ ~creatable
     THEN /\ build_ret' = <<-1>>
          /\ pc' = "idle"
          /\ res' = IF r.op = "build" THEN NoRes ELSE FailedRes(r.op)
          /\ UNCHANGED <<idx, csv_pos>>
     ELSE LET g == fgets(store.data, 0, LINE_SIZE)
          IN  /\ idx' = CreateIndex(idx)
              /\ IF ~g.ok
                 THEN /\ build_ret' = <<-1>>
                      /\ pc' = "idle"
                      /\ res' = IF r.op = "build" THEN NoRes ELSE FailedRes(r.op)
                      /\ UNCHANGED csv_pos
                 ELSE /\ pc' = "build"
                      /\ csv_pos' = g.pos
                      /\ res' = NoRes
                      /\ UNCHANGED build_ret

\* build_index called on its own (a maintenance run).
CallBuildIndex ==
  /\ pc = "idle"
  /\ req' = [NoReq EXCEPT !.op = "build"]
  /\ \E creatable \in BOOLEAN : BuildEnter(req', creatable)
  /\ UNCHANGED store
  /\ UNCHANGED side_vars

\* One iteration of the loop of build_index.
BuildLine ==
  /\ pc = "build"
  /\ LET g == fgets(store.data, csv_pos, LINE_SIZE)
     IN  /\ g.ok
         /\ idx' = BuildLineStep(idx, g.line, csv_pos)
         /\ csv_pos' = g.pos
  /\ UNCHANGED <<store, pc, req, build_ret, prior, res>>
  /\ UNCHANGED side_vars

\* The loop of build_index ends at end of file: both files are closed and 0
\* is returned to the caller.
BuildReturn ==
  /\ pc = "build"
  /\ ~fgets(store.data, csv_pos, LINE_SIZE).ok
  /\ build_ret' = <<0>>
  /\ pc' = IF req.op = "build" THEN "idle" ELSE "search"
  /\ UNCHANGED <<store, idx, req, csv_pos, prior, res>>
  /\ UNCHANGED side_vars

\* A search begins: the index is built first when its file is missing.
StartSearch(r) ==
  /\ pc = "idle"
  /\ req' = [r EXCEPT !.built = IndexMissing(idx)]
  /\ IF IndexMissing(idx)
     THEN \E creatable \in BOOLEAN : BuildEnter(req', creatable)
     ELSE /\ pc' = "search"
          /\ res' = NoRes
          /\ UNCHANGED <<idx, csv_pos, build_ret, prior>>
  /\ UNCHANGED store
  /\ UNCHANGED side_vars

\* search_by_title_and_update(title, update, buf, sizeof(buf)) is called.
CallSearchTitle ==
  /\ pc = "idle"
  /\ \E update \in Updates(store) : \E title \in Titles :
       StartSearch([NoReq EXCEPT !.op = "title", !.key = title, !.update = update])

\* search_by_keyword(keyword, exact, "index.bin") is called.
CallSearchKeyword ==
  /\ pc = "idle"
  /\ \E keyword \in Keywords(store) : \E exact \in BOOLEAN :
       StartSearch([NoReq EXCEPT !.op = "keyword", !.key = keyword, !.exact = exact])

\* search_by_title_and_update from the opening of the two files to its return.
SearchTitleBody ==
  /\ pc = "search"
  /\ req.op = "title"
  /\ LET r == search_by_title_and_update(idx, store, req.key, req.update, RESP_SIZE)
     IN  res' = [op |-> "title", ret |-> r.ret, lines |-> r.lines, reads |-> r.reads]
  /\ pc' = "idle"
  /\ UNCHANGED <<store, idx, req, csv_pos, build_ret, prior>>
  /\ UNCHANGED side_vars

\* search_by_keyword from the opening of the two files to its return.
SearchKeywordBody ==
  /\ pc = "search"
  /\ req.op = "keyword"
  /\ LET r == search_by_keyword(idx, store, req.key, req.exact)
     IN  res' = [op |-> "keyword", ret |-> r.ret, lines |-> r.lines, reads |-> r.reads]
  /\ pc' = "idle"
  /\ UNCHANGED <<store, idx, req, csv_pos, build_ret, prior>>
  /\ UNCHANGED side_vars

\* The index file is removed between two calls.
DeleteIndex ==
  /\ pc = "idle"
  /\ idx.exists
  /\ idx' = NoIndex
  /\ UNCHANGED <<store, pc, req, csv_pos, build_ret, prior, res>>
  /\ UNCHANGED side_vars

Next ==
  \/ CallBuildIndex
  \/ BuildLine
  \/ BuildReturn
  \/ CallSearchTitle
  \/ CallSearchKeyword
  \/ SearchTitleBody
  \/ SearchKeywordBody
  \/ DeleteIndex

Spec == Init /\ [][Next]_vars

(***************************************************************************)
(* An index file written by a build with another bucket count             *)
(***************************************************************************)
\* The N_BUCKETS of the build that wrote the foreign index file; it is not
\* smaller than N_BUCKETS, so that every slot search_by_keyword reads lies in
\* the bucket table of the file.
AltBuckets == 1001

\* The index file build_index leaves for record store st.
BuildOf(st) ==
  BuildFrom(st.data, fgets(st.data, 0, LINE_SIZE).pos, EmptyIndex)

\* The file of that build after its header and its empty bucket slots.
ForeignEmpty ==
  [exists  |-> TRUE,
   header  |-> [n_buckets      |-> AltBuckets,
                offset_buckets |-> SizeofIndexHeader,
                offset_entries |-> SizeofIndexHeader + SizeofBucketDisk * AltBuckets],
   heads   |-> <<>>,
   entries |-> <<>>,
   bad     |-> {}]

\* One insertion of that build: as InsertEntry, with its own bucket count.
ForeignInsert(f, key, line_start) ==
  LET h                == hash_string(key) % AltBuckets
      b                == ReadBucket(f, h)
      entry            == [key        |-> strncpy(key, KEY_SIZE - 1),
                           csv_offset |-> line_start,
                           next_entry |-> b]
      new_entry_offset == EntryRegion(f) + SizeofEntryDisk * Len(f.entries)
  IN  [f EXCEPT !.entries = Append(f.entries, entry),
                !.heads   = [i \in DOMAIN f.heads \cup {h} |->
                               IF i = h THEN new_entry_offset ELSE f.heads[i]]]

\* The insertions of that build for the entries es[k..], in order.
RECURSIVE ForeignFrom(_, _, _)
ForeignFrom(es, k, f) ==
  IF k > Len(es) THEN f
  ELSE ForeignFrom(es, k + 1, ForeignInsert(f, es[k].key, es[k].csv_offset))

\* The index file that build leaves for record store st: the same lines, in
\* the same order, each filed under its key modulo AltBuckets.
ForeignIndex(st) == ForeignFrom(BuildOf(st).entries, 1, ForeignEmpty)

\* The record stores for which a foreign index file is in place.
ForeignStores ==
  {StoreOf(ls) : ls \in UNION {[1..n -> LibraryLines] : n \in 1..MaxLines}}

\* The worker and search_by_keyword start with the foreign index file in
\* place, so neither builds.
InitForeign ==
  /\ store \in ForeignStores
  /\ idx = ForeignIndex(store)
  /\ pc = "idle"
  /\ req = NoReq
  /\ csv_pos = 0
  /\ build_ret = <<>>
  /\ prior = NoIndex
  /\ res = NoRes
  /\ SideInit

NextForeign ==
  \/ CallSearchTitle
  \/ CallSearchKeyword
  \/ SearchTitleBody
  \/ SearchKeywordBody

SpecForeign == InitForeign /\ [][NextForeign]_vars

(***************************************************************************)
(* Walking the chains of an index file                                     *)
(***************************************************************************)
\* One step along a chain on c = [cur, seq]: the entry at cur is read and its
\* next_entry followed; the walk ends at -1 or at an offset that holds no entry.
ChainIter(f, c) ==
  IF c.cur = -1 \/ ~EntryReadable(f, c.cur) THEN [c EXCEPT !.cur = -1]
  ELSE LET entry == ReadEntry(f, c.cur)
       IN  [cur |-> entry.next_entry, seq |-> Append(c.seq, entry)]

\* n steps along a chain; the count is halved as in the loops above, and no
\* step lengthens seq by more than one.
RECURSIVE ChainIters(_, _, _)
ChainIters(f, c, n) ==
  IF n = 0 THEN c
  ELSE IF n = 1 THEN ChainIter(f, c)
  ELSE LET first == ChainIters(f, c, n \div 2)
       IN  IF Len(first.seq) < 0 THEN first
           ELSE ChainIters(f, first, n - n \div 2)

\* The entries reachable from the head of bucket b, in chain order.
ChainEntries(f, b) ==
  ChainIters(f, [cur |-> ReadBucket(f, b), seq |-> <<>>], Len(f.entries)).seq

\* How many times a walk of all the chains of f meets an entry whose
\* csv_offset is off.
MeetCount(f, off) ==
  LET chains == [b \in DOMAIN f.heads |-> ChainEntries(f, b)]
  IN  Cardinality({bj \in UNION {{<<b, j>> : j \in 1..Len(chains[b])} :
                                    b \in DOMAIN f.heads} :
                     chains[bj[1]][bj[2]].csv_offset = off})

\* The last build_index call returned 0 and the file it wrote is in place.
BuiltIndexInPlace == pc # "build" /\ build_ret = <<0>> /\ idx.exists

\* The last call was a search that ran its loops (it did not return early).
SearchRan(op) == pc = "idle" /\ res.op = op /\ res.ret # -1

(***************************************************************************)
(* Claims                                                                  *)
(***************************************************************************)
\* C1: round trip.  Once build_index has succeeded, an exact-match
\* search_by_keyword for the key of any key-bearing record line (compared
\* without regard to case) prints at least one line equal to that record line.
RoundTripExact ==
  (SearchRan("keyword") /\ req.exact /\ build_ret = <<0>>) =>
    \A r \in RecordLines(store) :
      (KeyBearing(r.line) /\ strcasecmp_eq(KeyOf(r.line), req.key)) =>
        \E i \in 1..Len(res.lines) : res.lines[i] = r.line

\* C2: after build_index returns 0, every key-bearing record line is met
\* exactly once by a walk of all the bucket chains: exactly one reachable
\* entry carries the offset at which the line starts.
EveryLineChainedOnce ==
  BuiltIndexInPlace =>
    \A r \in RecordLines(store) :
      KeyBearing(r.line) => MeetCount(idx, r.offset) = 1

\* C3: bucket containment.  In the index file build_index wrote, the stored
\* key of every entry reachable from the head of bucket i hashes, modulo the
\* bucket count, to i.
BucketContainment ==
  BuiltIndexInPlace =>
    \A b \in DOMAIN idx.heads :
      \A j \in 1..Len(ChainEntries(idx, b)) :
        hash_string(ChainEntries(idx, b)[j].key) % idx.header.n_buckets = b

\* C4: cap respected.  The count a search returns, and the number of record
\* lines it delivers, never exceed MAX_RESULTS, however many entries of the
\* probe window match.
CapRespected ==
  res.ret <= MAX_RESULTS /\ Len(res.lines) <= MAX_RESULTS

\* C4 witness: search_by_title_and_update returned exactly MAX_RESULTS from an
\* index in which more entries than that match the title.
CapReached ==
  /\ SearchRan("title")
  /\ res.ret = MAX_RESULTS
  /\ idx.exists
  /\ Cardinality({k \in 1..Len(idx.entries) :
                    ci_strcasestr(idx.entries[k].key, req.key)}) > MAX_RESULTS

\* The home bucket of the last search: the worker takes the bucket count from
\* the header of the index file, search_by_keyword from N_BUCKETS; the header
\* build_index writes holds N_BUCKETS.
HomeBucket == hash_string(req.key) % N_BUCKETS

\* C5: window bound.  A search reads at most 2 * BUCKET_RANGE + 1 bucket
\* slots, each with an index in 0..bucket count - 1 and within BUCKET_RANGE of
\* the home bucket of the query.
WindowBound ==
  (SearchRan("title") \/ SearchRan("keyword")) =>
    /\ Len(res.reads) <= 2 * BUCKET_RANGE + 1
    /\ \A i \in 1..Len(res.reads) :
         /\ 0 <= res.reads[i] /\ res.reads[i] < N_BUCKETS
         /\ res.reads[i] - HomeBucket <= BUCKET_RANGE
         /\ HomeBucket - res.reads[i] <= BUCKET_RANGE

\* C5 witness: a title search whose home bucket is the last of the table: the
\* slots above it are skipped and the BUCKET_RANGE + 1 slots up to it are read.
WindowClipped ==
  /\ SearchRan("title")
  /\ HomeBucket = N_BUCKETS - 1
  /\ Len(res.reads) = BUCKET_RANGE + 1
  /\ res.reads[1] = N_BUCKETS - 1 - BUCKET_RANGE

\* C6: secondary filter.  When the update_date filter is not empty and equals,
\* without regard to case, column UPDATE_COL of no record line of the store,
\* search_by_title_and_update returns 0 and delivers nothing.
FilterOfNoRecordYieldsZero ==
  (/\ SearchRan("title")
   /\ Len(req.update) > 0
   /\ \A r \in RecordLines(store) :
        ~(/\ ColumnOf(r.line, UPDATE_COL).ret = 1
          /\ strcasecmp_eq(ColumnOf(r.line, UPDATE_COL).out, req.update)))
    => (res.ret = 0 /\ res.lines = <<>>)

\* The position of the record store after its first line.
AfterHeader == fgets(store.data, 0, LINE_SIZE).pos

\* The index file one complete run of build_index leaves for the store.
SingleBuild == BuildFrom(store.data, AfterHeader, EmptyIndex)

\* The last call was build_index on its own, it returned 0, it had found the
\* index file of an earlier build in place, and the file it wrote is in place.
SecondBuildDone ==
  /\ pc = "idle"
  /\ req.op = "build"
  /\ build_ret = <<0>>
  /\ prior.exists
  /\ idx.exists

\* C7: build_index run over the index file of an earlier run, on the same
\* record store, leaves the file the earlier run left, which is the file of a
\* single run: no entry is added to it, and every search answers from it as
\* it does from the earlier file.
BuildTwiceSameIndex ==
  SecondBuildDone =>
    /\ idx = prior
    /\ idx = SingleBuild
    /\ \A title \in Titles : \A update \in Updates(store) :
         search_by_title_and_update(idx, store, title, update, RESP_SIZE)
           = search_by_title_and_update(SingleBuild, store, title, update, RESP_SIZE)

\* C7 witness: the second build has returned and the index holds entries.
BuiltTwice == SecondBuildDone /\ Len(idx.entries) >= MaxLines

\* C8: lazy rebuild.  A search runs build_index only when it finds no index
\* file; its loops start after that build returned 0; and what it returns is
\* what the search returns over the index a build made beforehand leaves.
LazyRebuild ==
  /\ (req.op \in {"title", "keyword"} /\ req.built) => ~prior.exists
  /\ (pc = "search" /\ req.built) => (build_ret = <<0>> /\ idx = SingleBuild)
  /\ (SearchRan("title") /\ req.built) =>
       LET r == search_by_title_and_update(SingleBuild, store, req.key,
                                           req.update, RESP_SIZE)
       IN  res.ret = r.ret /\ res.lines = r.lines
  /\ (SearchRan("keyword") /\ req.built) =>
       LET r == search_by_keyword(SingleBuild, store, req.key, req.exact)
       IN  res.ret = r.ret /\ res.lines = r.lines

\* C8 witness: a title search found no index file, ran build_index, and
\* delivered records from the index that build left.
RebuiltThenAnswered ==
  /\ SearchRan("title")
  /\ req.built
  /\ res.ret > 0
  /\ idx.exists

\* C9: a build_index call that returns -1 leaves no index file of its own
\* making: the file a search then opens, without building, is the one that
\* call found.
FailedBuildLeavesNoIndex ==
  (/\ pc = "search"
   /\ ~req.built
   /\ build_ret = <<-1>>) => idx = prior

\* The entries of the probe window of the last title search that pass the key
\* test and the filter, as [bucket, position in the chain].
PassingEntries ==
  {bj \in UNION {{<<b, j>> : j \in 1..Len(ChainEntries(idx, b))} :
                   b \in {c \in DOMAIN idx.heads :
                            /\ c - HomeBucket <= BUCKET_RANGE
                            /\ HomeBucket - c <= BUCKET_RANGE}} :
     LET entry == ChainEntries(idx, bj[1])[bj[2]]
         g     == fgets(store.data, entry.csv_offset, MAX_LINE)
     IN  /\ ci_strcasestr(entry.key, req.key)
         /\ g.ok
         /\ pass_update(g.line, req.update)}

\* The last call was search_by_title_and_update, both files could be opened,
\* and the index file it read is still in place.
TitleSearchOnReadableFiles ==
  /\ pc = "idle"
  /\ res.op = "title"
  /\ store.exists
  /\ idx.exists
  /\ req.built => build_ret = <<0>>

\* C10: expected-empty is success.  When both files are readable and no entry
\* of the probe window passes the key test and the filter,
\* search_by_title_and_update returns 0 and delivers nothing; it does not
\* return -1.
ExpectedEmptyIsSuccess ==
  (TitleSearchOnReadableFiles /\ PassingEntries = {}) =>
    (res.ret = 0 /\ res.lines = <<>>)

\* C10 witness: an entry of the index matches the title, the filter rejects
\* its record, and the search returned 0.
KeyMatchesFilterRejects ==
  /\ TitleSearchOnReadableFiles
  /\ PassingEntries = {}
  /\ Len(req.update) > 0
  /\ \E k \in 1..Len(idx.entries) : ci_strcasestr(idx.entries[k].key, req.key)
  /\ res.ret = 0

\* The entries of the index whose stored key passes the test of the last
\* search: the query is a substring of the key, or equals it in exact mode,
\* letter case apart.
MatchingEntries ==
  {k \in 1..Len(idx.entries) :
     IF res.op = "keyword" /\ req.exact
     THEN strcasecmp_eq(idx.entries[k].key, req.key)
     ELSE ci_strcasestr(idx.entries[k].key, req.key)}

\* The size of the line buffer of the last search.
LineBufferSize == IF res.op = "keyword" THEN LINE_SIZE ELSE MAX_LINE

\* C11: match soundness.  Every record line a search delivers is the line at
\* the csv_offset of an entry whose stored key passes the test, and the count
\* it returns does not exceed the number of such entries.
MatchSoundness ==
  ((SearchRan("title") \/ SearchRan("keyword")) /\ idx.exists) =>
    LET sound == {fgets(store.data, idx.entries[k].csv_offset, LineBufferSize).line :
                    k \in MatchingEntries}
    IN  /\ \A i \in 1..Len(res.lines) : res.lines[i] \in sound
        /\ res.ret <= Cardinality(MatchingEntries)

\* C11 witness: a substring search by keyword delivered records although a
\* bucket it read holds an entry whose key does not contain the keyword.
MatchAmongOthers ==
  /\ SearchRan("keyword")
  /\ ~req.exact
  /\ idx.exists
  /\ res.ret > 0
  /\ \E k \in 1..Len(idx.entries) :
       /\ k \notin MatchingEntries
       /\ \E i \in 1..Len(res.reads) :
            res.reads[i] = hash_string(idx.entries[k].key) % N_BUCKETS

\* C12: on the store of the three titles Deep Learning Basics, deep space
\* research and Shallow Networks, once the index is built, the substring
\* search for deep without a filter delivers the two lines whose title
\* contains deep and not the third.
DeepScenario ==
  (/\ SearchRan("title")
   /\ store = DeepStore
   /\ req.key = <<"d","e","e","p">>
   /\ req.update = <<>>) =>
    /\ \E i \in 1..Len(res.lines) : res.lines[i] = LineDeepLearning
    /\ \E i \in 1..Len(res.lines) : res.lines[i] = LineDeepSpace
    /\ \A i \in 1..Len(res.lines) : res.lines[i] # LineShallow

\* C13: a search takes the bucket count from the header of the index file it
\* opened, whenever that count is positive: every slot it reads has an index
\* in 0..count - 1 and lies within BUCKET_RANGE of the key's hash modulo that
\* count.
HeaderCountUsed ==
  ((SearchRan("title") \/ SearchRan("keyword")) /\ idx.header.n_buckets > 0) =>
    LET n    == idx.header.n_buckets
        home == hash_string(req.key) % n
    IN  \A i \in 1..Len(res.reads) :
          /\ 0 <= res.reads[i] /\ res.reads[i] < n
          /\ res.reads[i] - home <= BUCKET_RANGE
          /\ home - res.reads[i] <= BUCKET_RANGE

\* Byte offset off is where one of the entries of the index file starts, at or
\* after the entry region its header names.
EntryStart(off) ==
  /\ off >= idx.header.offset_entries
  /\ \E k \in 1..Len(idx.entries) :
       off = idx.header.offset_entries + SizeofEntryDisk * (k - 1)

\* C14: in every index file build_index has written or is writing, the
\* header's bucket table offset is the size of the header, its entry region
\* offset is the bucket table offset plus bucket count times the slot size,
\* and every bucket head and every next_entry is -1 or the start of an
\* entry of the file at or after the entry region offset.
LayoutInvariant ==
  idx.exists =>
    /\ idx.header.offset_buckets = SizeofIndexHeader
    /\ idx.header.offset_entries =
         idx.header.offset_buckets + idx.header.n_buckets * SizeofBucketDisk
    /\ \A b \in DOMAIN idx.heads :
         idx.heads[b] = -1 \/ EntryStart(idx.heads[b])
    /\ \A k \in 1..Len(idx.entries) :
         idx.entries[k].next_entry = -1 \/ EntryStart(idx.entries[k].next_entry)

\* A finished build left a bucket whose head entry links to an older entry.
ChainOfTwo ==
  /\ idx.exists
  /\ pc = "idle"
  /\ build_ret # <<>>
  /\ \E b \in DOMAIN idx.heads :
       /\ EntryStart(idx.heads[b])
       /\ \E k \in 1..Len(idx.entries) :
            /\ idx.heads[b] = EntryOffset(k)
            /\ idx.entries[k].next_entry # -1

\* C17: for the record line build_index is about to index, the key field it
\* takes with strtok (column KEY_COL, before limpiar_texto) is what
\* csv_get_column returns for column KEY_COL of the same line: either both
\* find the field and yield the same text, or neither finds it.
BuilderReaderAgree ==
  pc = "build" =>
    LET g == fgets(store.data, csv_pos, LINE_SIZE)
    IN  g.ok =>
          LET t == strtok_nth(g.line, KEY_COL)
              c == csv_get_column(g.line, KEY_COL, LINE_SIZE)
          IN  /\ t.found <=> c.ret = 1
              /\ t.found => t.token = c.out

(***************************************************************************)
(* csv_get_column called on one line                                       *)
(***************************************************************************)
\* The longest line body and the highest column asked for.
CsvMaxLen == 5
CsvMaxCol == 3

\* A letter, the field separator, the quote and a blank.
CsvAlphabet == {"a", ",", "\"", " "}

\* The lines fgets hands over: no newline except, possibly, as the last byte.
CsvLines ==
  {b \o e : b \in UNION {[1..n -> CsvAlphabet] : n \in 0..CsvMaxLen},
            e \in {<<>>, <<"\n">>}}

\* csv_get_column is about to be called as search_by_title_and_update calls
\* it, with a buffer of UPDATE_SIZE bytes.
InitCsv ==
  /\ csv_call \in [line : CsvLines, target_col : 1..CsvMaxCol, out_sz : {UPDATE_SIZE}]
  /\ csv_result = NoResult
  /\ pc = "csv_call"
  /\ store = AbsentStore
  /\ idx = NoIndex
  /\ req = NoReq
  /\ csv_pos = 0
  /\ build_ret = <<>>
  /\ prior = NoIndex
  /\ res = NoRes
  /\ request = NoRequest
  /\ response = <<>>
  /\ readers = <<>>
  /\ streams = {}
  /\ IpcInit

\* The call of csv_get_column and its return.
CallCsvGetColumn ==
  /\ pc = "csv_call"
  /\ csv_result' = csv_get_column(csv_call.line, csv_call.target_col, csv_call.out_sz)
  /\ pc' = "csv_return"
  /\ UNCHANGED <<store, idx, req, csv_pos, build_ret, prior, res,
                 request, response, readers, csv_call, streams,
                 ui, daemon, fifos, sent>>

NextCsv == CallCsvGetColumn

SpecCsv == InitCsv /\ [][NextCsv]_vars

(***************************************************************************)
(* What the fields of a line are                                           *)
(***************************************************************************)
\* The elements of s at the indices in S, in order.
Pick(s, S) ==
  [j \in 1..Cardinality(S) |->
     s[CHOOSE i \in S : Cardinality({x \in S : x < i}) = j - 1]]

\* The line without its line end.
Body(line) ==
  IF line # <<>> /\ IsEol(line[Len(line)]) THEN SubSeq(line, 1, Len(line) - 1)
  ELSE line

\* The field separators of body b: the commas outside quotes, that is, with an
\* even number of quote characters before them.
Separators(b) ==
  {i \in 1..Len(b) :
     /\ b[i] = ","
     /\ Cardinality({j \in 1..(i - 1) : b[j] = "\""}) % 2 = 0}

NumFields(line) == Cardinality(Separators(Body(line))) + 1

\* The k-th field of the line as written, quotes included.
RawField(line, k) ==
  LET b    == Body(line)
      seps == Separators(b)
      cut  == [j \in 0..(Cardinality(seps) + 1) |->
                 IF j = 0 THEN 0
                 ELSE IF j = Cardinality(seps) + 1 THEN Len(b) + 1
                 ELSE CHOOSE i \in seps : Cardinality({x \in seps : x < i}) = j - 1]
  IN  SubSeq(b, cut[k - 1] + 1, cut[k] - 1)

\* The quote at index i of quoted field f is the first of a doubled quote.
OpensPair(f, i) ==
  Cardinality({j \in 2..(i - 1) : f[j] = "\""}) % 2 = 0

IsQuoted(f) == Len(f) >= 2 /\ f[1] = "\"" /\ f[Len(f)] = "\""

\* Field f is written by the rules: without any quote, or between two quotes
\* with every quote inside doubled.
WellFormedField(f) ==
  \/ \A i \in 1..Len(f) : f[i] # "\""
  \/ /\ IsQuoted(f)
     /\ \A i \in 2..(Len(f) - 1) :
          (f[i] = "\"" /\ OpensPair(f, i)) => (i + 1 <= Len(f) - 1 /\ f[i + 1] = "\"")

WellFormed(line) ==
  \A k \in 1..NumFields(line) : WellFormedField(RawField(line, k))

\* The content of quoted field f: what stands between its quotes, one quote
\* for each doubled quote.
Decoded(f) ==
  Pick(f, {i \in 2..(Len(f) - 1) : f[i] # "\"" \/ OpensPair(f, i)})

\* csv_get_column has returned from a call on a line written by the rules.
CsvReturned == pc = "csv_return" /\ WellFormed(csv_call.line)

\* C18: asked for a quoted field of a line, csv_get_column returns 1 and the
\* text between the field's quotes with each doubled quote as one quote and
\* the commas inside kept; the commas inside quoted fields before it do not
\* count as separators.
QuotedFieldDecoded ==
  (/\ CsvReturned
   /\ csv_call.target_col <= NumFields(csv_call.line)
   /\ IsQuoted(RawField(csv_call.line, csv_call.target_col))) =>
    /\ csv_result.ret = 1
    /\ csv_result.out = Decoded(RawField(csv_call.line, csv_call.target_col))

\* C19: csv_get_column returns 0 and an empty output for a line with fewer
\* fields than the ordinal asked for, and 1 for a line with at least that many
\* fields, the field asked for being empty or not.
AbsentIffShort ==
  (CsvReturned /\ Body(csv_call.line) # <<>>) =>
    /\ csv_result.ret = 1 <=> csv_call.target_col <= NumFields(csv_call.line)
    /\ csv_result.ret = 0 => csv_result.out = <<>>

\* The record lines of PassingEntries in encounter order: buckets ascending
\* by index, and within a bucket along the chain from its head, the entry
\* inserted last first.
AcceptedInOrder ==
  LET P        == PassingEntries
      Rank(bj) == Cardinality({x \in P : \/ x[1] < bj[1]
                                         \/ x[1] = bj[1] /\ x[2] < bj[2]})
  IN  [i \in 1..Cardinality(P) |->
         LET bj == CHOOSE x \in P : Rank(x) = i - 1
         IN  fgets(store.data, ChainEntries(idx, bj[1])[bj[2]].csv_offset, MAX_LINE).line]

\* C20: search_by_title_and_update delivers the accepted lines in encounter
\* order and stops only at the cap or at the end of the probe window: what it
\* delivers is the first min(MAX_RESULTS, number accepted) lines of that
\* order, and it returns their number.
EncounterOrder ==
  (TitleSearchOnReadableFiles /\ SearchRan("title")) =>
    /\ res.lines = Take(AcceptedInOrder, MAX_RESULTS)
    /\ res.ret = Len(res.lines)

(***************************************************************************)
(* Reader processes searching the same index file at the same time         *)
(***************************************************************************)
\* The number of reader processes.
NumReaders == 2

\* A reader that has not called its search yet.
IdleReader ==
  [pc |-> "idle", op |-> "none", key |-> <<>>, update |-> <<>>, exact |-> FALSE,
   h |-> 0, n_buckets |-> 0, off |-> 0, off_end |-> 0,
   st |-> [found |-> 0, used |-> 0, lines |-> <<>>, reads |-> <<>>,
           stop |-> FALSE, current |-> -1]]

\* A truncating open in place of a reading one.
OpenTruncating(f) == EmptyIndex

\* fopen(path, "rb") of a file that exists: the file stays as it is.
OpenForRead(f) == f

\* The searches the readers make.
ReaderCalls ==
  { [op |-> "title",   key |-> <<"w","e","b">>, update |-> <<>>, exact |-> FALSE],
    [op |-> "keyword", key |-> <<"w","e","b">>, update |-> <<>>, exact |-> FALSE] }

\* An index file is in place and no reader has started.
InitReaders ==
  /\ store = StoreOf(<<LineA, LineB>>)
  /\ idx = BuildOf(store)
  /\ readers = [i \in 1..NumReaders |-> IdleReader]
  /\ pc = "idle"
  /\ req = NoReq
  /\ csv_pos = 0
  /\ build_ret = <<>>
  /\ prior = NoIndex
  /\ res = NoRes
  /\ request = NoRequest
  /\ response = <<>>
  /\ csv_call = NoCall
  /\ csv_result = NoResult
  /\ streams = {}
  /\ IpcInit

\* Reader i enters search c: the index file is found, both files are opened
\* for reading with streams of the reader's own, the home bucket and the
\* window are set.
ReaderOpen(i, c) ==
  /\ readers[i].pc = "idle"
  /\ ~IndexMissing(idx)
  /\ store.exists
  /\ idx' = OpenForRead(idx)
  /\ LET n_buckets == IF c.op = "keyword" \/ idx.header.n_buckets <= 0
                      THEN N_BUCKETS ELSE idx.header.n_buckets
     IN  readers' = [readers EXCEPT ![i] =
           [IdleReader EXCEPT !.pc = "scan", !.op = c.op, !.key = c.key,
                              !.update = c.update, !.exact = c.exact,
                              !.h = hash_string(c.key) % n_buckets,
                              !.n_buckets = n_buckets,
                              !.off = IF c.exact THEN 0 ELSE -BUCKET_RANGE,
                              !.off_end = IF c.exact THEN 0 ELSE BUCKET_RANGE]]
  /\ UNCHANGED <<store, pc, req, csv_pos, build_ret, prior, res,
                 request, response, csv_call, csv_result, streams,
                 ui, daemon, fifos, sent>>

\* Reader i runs the body of its for loop for one offset, on the files as they
\* are now.
ReaderBucket(i) ==
  /\ readers[i].pc = "scan"
  /\ readers[i].off <= readers[i].off_end
  /\ LET r == readers[i]
     IN  readers' = [readers EXCEPT ![i] =
           [r EXCEPT !.off = @ + 1,
                     !.st  = IF r.op = "title"
                             THEN TitleBucket(idx, store.data, r.h, r.n_buckets, r.off,
                                              r.st, r.key, r.update, RESP_SIZE)
                             ELSE KeywordBucket(idx, store.data, r.h, r.off,
                                                r.st, r.key, r.exact)]]
  /\ UNCHANGED <<store, idx, pc, req, csv_pos, build_ret, prior, res,
                 request, response, csv_call, csv_result, streams,
                 ui, daemon, fifos, sent>>

\* Reader i leaves its for loop, closes its streams and returns.
ReaderReturn(i) ==
  /\ readers[i].pc = "scan"
  /\ readers[i].off > readers[i].off_end
  /\ readers' = [readers EXCEPT ![i].pc = "done"]
  /\ UNCHANGED <<store, idx, pc, req, csv_pos, build_ret, prior, res,
                 request, response, csv_call, csv_result, streams,
                 ui, daemon, fifos, sent>>

NextReaders ==
  \E i \in 1..NumReaders :
    \/ \E c \in ReaderCalls : ReaderOpen(i, c)
    \/ ReaderBucket(i)
    \/ ReaderReturn(i)

SpecReaders == InitReaders /\ [][NextReaders]_vars

\* What the search of reader r returns when it runs alone on index file f.
RunAlone(f, r) ==
  IF r.op = "title"
  THEN search_by_title_and_update(f, store, r.key, r.update, RESP_SIZE)
  ELSE search_by_keyword(f, store, r.key, r.exact)

\* C15: searches over an index file that is in place leave the index file and
\* the record store as they were, and every search that runs interleaved with
\* others returns what it returns when it runs alone.
ReadersDoNotInterfere ==
  (readers # <<>>) =>
    /\ idx = BuildOf(store)
    /\ store = StoreOf(<<LineA, LineB>>)
    /\ \A i \in DOMAIN readers :
         readers[i].pc = "done" =>
           LET alone == RunAlone(BuildOf(store), readers[i])
           IN  /\ readers[i].st.found = alone.ret
               /\ readers[i].st.lines = alone.lines
               /\ readers[i].st.reads = alone.reads

\* Two searches are in progress at once, a title search and a keyword search,
\* each past its home bucket with records collected.
ReadersInterleaved ==
  /\ readers # <<>>
  /\ \E i, j \in DOMAIN readers :
       /\ i # j
       /\ readers[i].pc = "scan" /\ readers[i].op = "title"
       /\ readers[i].off > 0 /\ readers[i].st.found > 0
       /\ readers[j].pc = "scan" /\ readers[j].op = "keyword"
       /\ readers[j].off > 0 /\ readers[j].st.found > 0

(***************************************************************************)
(* main of the worker (search_worker.c): one Request, one Response         *)
(***************************************************************************)
\* field_is(field, target): both copied to buffers of 128 bytes and trimmed,
\* then compared without regard to case.
field_is(field, target) ==
  strcasecmp_eq(trim_inplace(strncpy(field, 127)), trim_inplace(strncpy(target, 127)))

\* The names main takes for the update_date field.
IsUpdateName(field) ==
  \/ field_is(field, <<"u","p","d","a","t","e","_","d","a","t","e">>)
  \/ field_is(field, <<"u","p","d","a","t","e","d","a","t","e">>)
  \/ field_is(field, <<"u","p","d","a","t","e","-","d","a","t","e">>)

\* A worker that looks for the title in the first slot only.
TitleOfFirstSlot(r) ==
  IF field_is(r.field_name1, <<"t","i","t","l","e">>)
  THEN trim_inplace(strncpy(r.value1, KEY_SIZE - 1))
  ELSE <<>>

\* title_val as main fills it from Request r.
TitleOf(r) ==
  IF field_is(r.field_name1, <<"t","i","t","l","e">>)
  THEN trim_inplace(strncpy(r.value1, KEY_SIZE - 1))
  ELSE IF field_is(r.field_name2, <<"t","i","t","l","e">>)
       THEN trim_inplace(strncpy(r.value2, KEY_SIZE - 1))
       ELSE <<>>

\* A worker that looks for the filter in the second slot only.
UpdateOfSecondSlot(r) ==
  IF IsUpdateName(r.field_name2)
  THEN trim_inplace(strncpy(r.value2, UPDATE_SIZE - 1))
  ELSE <<>>

\* update_val as main fills it from Request r.
UpdateOf(r) ==
  IF IsUpdateName(r.field_name1)
  THEN trim_inplace(strncpy(r.value1, UPDATE_SIZE - 1))
  ELSE IF IsUpdateName(r.field_name2)
       THEN trim_inplace(strncpy(r.value2, UPDATE_SIZE - 1))
       ELSE <<>>

\* build_index run from call to return on record store st with index file f in
\* place: ret is what it returns and f the index file it leaves.
build_index(st, f, creatable) ==
  IF ~st.exists \/ ~creatable THEN [ret |-> -1, f |-> f]
  ELSE IF ~fgets(st.data, 0, LINE_SIZE).ok THEN [ret |-> -1, f |-> CreateIndex(f)]
  ELSE [ret |-> 0,
        f   |-> BuildFrom(st.data, fgets(st.data, 0, LINE_SIZE).pos, CreateIndex(f))]

\* "NA", the answer for no result.
NA == <<"N", "A">>

\* The slots a Request is put together from: a field name and a value.
Slots ==
  { [name |-> <<>>, value |-> <<>>],
    [name |-> <<"t","i","t","l","e">>, value |-> <<"w","e","b">>],
    [name |-> <<" ","T","i","t","l","e"," ">>, value |-> <<" ","w","e","b"," ">>],
    [name |-> <<"t","i","t","l","e">>, value |-> <<" "," ">>],
    [name |-> <<"u","p","d","a","t","e","_","d","a","t","e">>, value |-> <<"d","1">>],
    [name |-> <<"u","p","d","a","t","e","-","d","a","t","e">>, value |-> <<"d","9">>],
    [name |-> <<"i","d">>, value |-> <<"w","e","b">>] }

\* The Requests the worker reads: two slots that do not name the same field
\* twice.
Requests ==
  { [field_name1 |-> a.name, value1 |-> a.value,
     field_name2 |-> b.name, value2 |-> b.value] :
      <<a, b>> \in {ab \in Slots \X Slots :
                      /\ ~(/\ field_is(ab[1].name, <<"t","i","t","l","e">>)
                           /\ field_is(ab[2].name, <<"t","i","t","l","e">>))
                      /\ ~(IsUpdateName(ab[1].name) /\ IsUpdateName(ab[2].name))} }

\* The worker starts; the index file may be there from an earlier run.
InitWorker ==
  /\ store \in {AbsentStore, EmptyStore, StoreOf(<<LineA, LineB>>)}
  /\ idx \in {NoIndex} \cup (IF store.exists /\ store.data # <<>> THEN {BuildOf(store)} ELSE {})
  /\ pc = "idle"
  /\ req = NoReq
  /\ csv_pos = 0
  /\ build_ret = <<>>
  /\ prior = NoIndex
  /\ res = NoRes
  /\ SideInit

\* One pass of the loop of main for Request r: the title and the filter are
\* taken from r, the search is made when there is a title (and builds the
\* index when its file is missing), and the Response is written.  creatable
\* tells whether fopen(index_path, "wb+") succeeds, should build_index run.
WorkerServe(r, creatable) ==
  /\ pc = "idle"
  /\ ~creatable => (TitleOf(r) # <<>> /\ IndexMissing(idx))
  /\ request' = r
  /\ IF TitleOf(r) = <<>>
     THEN /\ response' = NA
          /\ req' = NoReq
          /\ res' = NoRes
          /\ UNCHANGED <<idx, build_ret, prior>>
     ELSE LET missing == IndexMissing(idx)
              b       == IF missing THEN build_index(store, idx, creatable)
                         ELSE [ret |-> 0, f |-> idx]
              s       == IF b.ret # 0 THEN [ret |-> -1, lines |-> <<>>, reads |-> <<>>]
                         ELSE search_by_title_and_update(b.f, store, TitleOf(r),
                                                         UpdateOf(r), RESP_SIZE)
          IN  /\ idx' = b.f
              /\ build_ret' = IF missing THEN <<b.ret>> ELSE build_ret
              /\ prior' = IF missing THEN idx ELSE prior
              /\ req' = [op |-> "title", key |-> TitleOf(r), update |-> UpdateOf(r),
                         exact |-> FALSE, built |-> missing]
              /\ res' = [op |-> "title", ret |-> s.ret, lines |-> s.lines, reads |-> s.reads]
              /\ response' = IF s.ret <= 0 THEN NA
                             ELSE strncpy(Flatten(s.lines), RESP_SIZE - 1)
  /\ UNCHANGED <<store, pc, csv_pos, readers, csv_call, csv_result, streams,
                 ui, daemon, fifos, sent>>

NextWorker == \E r \in Requests, creatable \in BOOLEAN : WorkerServe(r, creatable)

SpecWorker == InitWorker /\ [][NextWorker]_vars

\* Request r carries a title that is not blank: one of its slots is named
\* title, whatever the case and the blanks around the name, and the value of
\* that slot holds a character that is not white space.
CarriesTitle(r) ==
  \E s \in {<<r.field_name1, r.value1>>, <<r.field_name2, r.value2>>} :
    /\ strcasecmp_eq(trim_inplace(s[1]), <<"t","i","t","l","e">>)
    /\ \E i \in 1..Len(s[2]) : ~isspace(s[2][i])

\* The Response to the Request read last: for a Request that carries a title
\* the search was made; the Response is "NA" exactly when the Request carries
\* no title or the search returned no more than 0, and otherwise the record
\* lines the search collected, one after the other.
AnswerOfWorker ==
  (request # NoRequest) =>
    /\ CarriesTitle(request) => res.op = "title"
    /\ response = NA <=> (~CarriesTitle(request) \/ res.ret <= 0)
    /\ (CarriesTitle(request) /\ res.ret > 0) => response = Flatten(res.lines)

\* A Request without a title is answered without a search and without a
\* build: no search ran and the index file is as it was.
NoTitleNoWork ==
  ~CarriesTitle(request') => (res' = NoRes /\ idx' = idx /\ store' = store)

KeysWhole == \A k \in 1..Len(idx.entries) : Len(idx.entries[k].key) < KEY_SIZE - 1

\* The entries filed under bucket b, oldest first.
FiledUnder(b) ==
  SelectSeq(idx.entries, LAMBDA e : hash_string(e.key) % N_BUCKETS = b)

\* Every next_entry is -1 or the offset of an entry written earlier, and the
\* walk from the head of each bucket meets the entries filed under it, the one
\* inserted last first, down to the one whose next_entry is -1.
ChainsNewestFirst ==
  (idx.exists /\ KeysWhole) =>
    /\ \A k \in 1..Len(idx.entries) :
         \/ idx.entries[k].next_entry = -1
         \/ \E j \in 1..(k - 1) : idx.entries[k].next_entry = EntryOffset(j)
    /\ \A b \in DOMAIN idx.heads :
         LET chain == ChainEntries(idx, b)
             filed == FiledUnder(b)
         IN  /\ Len(chain) = Len(filed)
             /\ \A i \in 1..Len(chain) : chain[i] = filed[Len(filed) + 1 - i]
             /\ Len(chain) > 0 => chain[Len(chain)].next_entry = -1

\* A step that adds an entry writes it at the end of the file, with the head
\* of one bucket as it was before the step for next_entry, makes it the head
\* of that bucket, and leaves every other slot and entry as it was.
InsertionLinksOldHead ==
  (idx.exists /\ idx'.exists /\ Len(idx'.entries) = Len(idx.entries) + 1) =>
    LET new == idx'.entries[Len(idx'.entries)]
    IN  /\ SubSeq(idx'.entries, 1, Len(idx.entries)) = idx.entries
        /\ \E b \in DOMAIN idx'.heads :
             /\ idx'.heads[b] = FileLength(idx)
             /\ new.next_entry = ReadBucket(idx, b)
             /\ \A c \in DOMAIN idx'.heads \ {b} : ReadBucket(idx, c) = idx'.heads[c]

\* C21: each insertion of the build appends the entry at the end of the index
\* file with next_entry set to the head of its bucket before the insertion and
\* makes it the head; so the walk of a chain from its head meets the entries
\* of the bucket in reverse order of insertion and ends at -1.
LifoInsertion == []ChainsNewestFirst /\ [][InsertionLinksOldHead]_vars

\* A build that is running has filed three lines under one bucket: the chain
\* of that bucket starts at the third and ends at the first.
ChainOfThreeInBuild ==
  /\ pc = "build"
  /\ idx.exists
  /\ Len(idx.entries) = 3
  /\ \E b \in DOMAIN idx.heads :
       /\ idx.heads[b] = EntryOffset(3)
       /\ idx.entries[3].next_entry = EntryOffset(2)
       /\ idx.entries[2].next_entry = EntryOffset(1)
       /\ idx.entries[1].next_entry = -1

\* The byte offsets at which the lines after the first line of the record
\* store begin: each follows a newline.
LaterLineStarts ==
  {i \in 1..(Len(store.data) - 1) : store.data[i] = "\n"}

\* C22: build_index skips the first line of the record store and no more, and
\* the csv_offset of every entry is the byte offset at which a later line
\* begins, however long the lines are.
OffsetsAtLineStarts ==
  idx.exists =>
    \A k \in 1..Len(idx.entries) : idx.entries[k].csv_offset \in LaterLineStarts

\* C23: a line whose title column is absent or empty adds no entry to the
\* index, and every entry has a key that is not empty.
KeyedLinesOnly ==
  (idx.exists /\ pc # "build") =>
    /\ \A r \in RecordLines(store) :
         ~KeyBearing(r.line) =>
           \A k \in 1..Len(idx.entries) : idx.entries[k].csv_offset # r.offset
    /\ \A k \in 1..Len(idx.entries) : idx.entries[k].key # <<>>

\* The key build_index cleaned for the piece of the record store it read at
\* byte offset off.
CleanedKeyAt(off) ==
  limpiar_texto(strtok_nth(fgets(store.data, off, LINE_SIZE).line, KEY_COL).token)

\* C24: the key buffer of every entry is zero-terminated within its KEY_SIZE
\* bytes: the stored key is the first min(length, KEY_SIZE - 1) bytes of the
\* cleaned key, and zero bytes fill the rest.
KeyTerminated ==
  idx.exists =>
    \A k \in 1..Len(idx.entries) :
      LET key     == idx.entries[k].key
          cleaned == CleanedKeyAt(idx.entries[k].csv_offset)
      IN  /\ Len(key) <= KEY_SIZE - 1
          /\ Len(key) = IF Len(cleaned) < KEY_SIZE - 1 THEN Len(cleaned) ELSE KEY_SIZE - 1
          /\ key = SubSeq(cleaned, 1, Len(key))

\* A finished build stored a title longer than the key buffer: the entry
\* holds its first KEY_SIZE - 1 bytes.
LongKeyCut ==
  /\ idx.exists
  /\ build_ret = <<0>>
  /\ \E k \in 1..Len(idx.entries) :
       /\ Len(idx.entries[k].key) = KEY_SIZE - 1
       /\ Len(CleanedKeyAt(idx.entries[k].csv_offset)) > KEY_SIZE - 1

\* The accepted lines, up to MAX_RESULTS of them, fit the response buffer
\* together.
AcceptedFit ==
  Len(Flatten(Take(AcceptedInOrder, MAX_RESULTS))) + 1 < RESP_SIZE

\* The entries of the probe window whose key matches the title.
KeyMatchingEntries ==
  {bj \in UNION {{<<b, j>> : j \in 1..Len(ChainEntries(idx, b))} :
                   b \in {c \in DOMAIN idx.heads :
                            /\ c - HomeBucket <= BUCKET_RANGE
                            /\ HomeBucket - c <= BUCKET_RANGE}} :
     ci_strcasestr(ChainEntries(idx, bj[1])[bj[2]].key, req.key)}

FaultStore ==
  StoreOf(<< Record12("1", <<"w","e","b","b">>, <<"d","1">>),
             LineB,
             Record12("3", <<"w","e","b","b">>, <<"d","1">>) >>)

\* The record store cut after its first record line, under an index file
\* built before the cut.
CutStore == StoreOf(<< Record12("1", <<"w","e","b","b">>, <<"d","1">>) >>)

\* The index file build_index wrote for FaultStore.
FaultIndex == BuildOf(FaultStore)

\* The places of FaultIndex at which a read may fail: the open, the header,
\* the slots that head a chain, and the entries.
FaultOffsets ==
  {-1, 0}
    \cup {SizeofIndexHeader + SizeofBucketDisk * b : b \in DOMAIN FaultIndex.heads}
    \cup {EntryOffset(k) : k \in 1..Len(FaultIndex.entries)}

\* FaultIndex under a header whose bucket count was cleared.
ZeroCountIndex == [FaultIndex EXCEPT !.header.n_buckets = 0]

InitFaults ==
  /\ store \in {FaultStore, CutStore, AbsentStore}
  /\ idx \in {NoIndex, ZeroCountIndex}
              \cup {[FaultIndex EXCEPT !.bad = B] : B \in SUBSET FaultOffsets}
  /\ pc = "idle"
  /\ req = NoReq
  /\ csv_pos = 0
  /\ build_ret = <<>>
  /\ prior = NoIndex
  /\ res = NoRes
  /\ SideInit

\* search_by_title_and_update as one step: the index is ensured, the files
\* are opened, the loops run and the streams are closed.
SearchTitleIO(title, update) ==
  /\ pc = "idle"
  /\ req' = [NoReq EXCEPT !.op = "title", !.key = title, !.update = update,
                          !.built = IndexMissing(idx)]
  /\ prior' = idx
  /\ LET b == IF IndexMissing(idx) THEN build_index(store, idx, TRUE)
              ELSE [ret |-> 0, f |-> idx]
         r == search_by_title_and_update(b.f, store, title, update, RESP_SIZE)
     IN  /\ idx' = b.f
         /\ build_ret' = IF IndexMissing(idx) THEN <<b.ret>> ELSE <<>>
         /\ IF b.ret # 0
            THEN /\ res' = [op |-> "title", ret |-> -1, lines |-> <<>>, reads |-> <<>>]
                 /\ streams' = {}
            ELSE /\ res' = [op |-> "title", ret |-> r.ret, lines |-> r.lines,
                            reads |-> r.reads]
                 /\ streams' = r.open
  /\ UNCHANGED <<store, pc, csv_pos, request, response, readers, csv_call,
                 csv_result, ui, daemon, fifos, sent>>

\* search_by_keyword as one step.
SearchKeywordIO(keyword, exact) ==
  /\ pc = "idle"
  /\ req' = [NoReq EXCEPT !.op = "keyword", !.key = keyword, !.exact = exact,
                          !.built = ~Openable(idx)]
  /\ prior' = idx
  /\ LET b == IF ~Openable(idx) THEN build_index(store, idx, TRUE)
              ELSE [ret |-> 0, f |-> idx]
         r == search_by_keyword(b.f, store, keyword, exact)
     IN  /\ idx' = b.f
         /\ build_ret' = IF ~Openable(idx) THEN <<b.ret>> ELSE <<>>
         /\ res' = IF b.ret = -1
                   THEN [op |-> "keyword", ret |-> -1, lines |-> <<>>, reads |-> <<>>]
                   ELSE [op |-> "keyword", ret |-> r.ret, lines |-> r.lines,
                         reads |-> r.reads]
  /\ UNCHANGED <<store, pc, csv_pos, request, response, readers, csv_call,
                 csv_result, streams, ui, daemon, fifos, sent>>

FaultTitles == { <<"w","e","b">>, <<"w","e","b","b">> }

NextFaults ==
  \/ \E title \in FaultTitles : \E update \in {<<>>, <<"d","1">>} :
       SearchTitleIO(title, update)
  \/ \E keyword \in FaultTitles : \E exact \in BOOLEAN :
       SearchKeywordIO(keyword, exact)

SpecFaults == InitFaults /\ [][NextFaults]_vars

\* File f with every read succeeding.
Undamaged(f) == [f EXCEPT !.bad = {}]

\* The byte offsets of the entries of the chain of bucket b, in chain order.
ChainOffsets(f, b) ==
  LET chain == ChainEntries(Undamaged(f), b)
  IN  [j \in 1..Len(chain) |->
         IF j = 1 THEN ReadBucket(f, b) ELSE chain[j - 1].next_entry]

\* The positions of the chain of bucket b a walk reaches before a read fails:
\* none when the slot cannot be read, else those before the first entry that
\* cannot be read.
ReachedBeforeFailure(f, b) ==
  IF ~SlotReadable(f, b) THEN {}
  ELSE {j \in DOMAIN ChainOffsets(f, b) :
          \A i \in 1..j : ChainOffsets(f, b)[i] \notin f.bad}

\* The buckets of the index that lie in the probe window of the last search.
WindowBuckets ==
  {b \in DOMAIN idx.heads :
     LET range == IF res.op = "keyword" /\ req.exact THEN 0 ELSE BUCKET_RANGE
     IN  b - HomeBucket <= range /\ HomeBucket - b <= range}

\* The record line the last search reads for an entry, when there is one.
LineOfEntry(entry) == fgets(store.data, entry.csv_offset, LineBufferSize)

\* The last search delivers the record line of the entry.
Delivered(entry) ==
  /\ entry.csv_offset >= 0
  /\ LineOfEntry(entry).ok
  /\ IF res.op = "title"
     THEN /\ ci_strcasestr(entry.key, req.key)
          /\ pass_update(LineOfEntry(entry).line, req.update)
     ELSE KeywordMatch(entry.key, req.key, req.exact)

\* C26: a bucket slot or an entry that cannot be read in the middle of a
\* search ends the walk of that chain only: the search goes on with the next
\* bucket, keeps what it had collected and returns a count that is not
\* negative.  What it delivers is the lines of the accepted entries that, in
\* each chain of the window, come before the first failed read.
FailureEndsChainOnly ==
  (SearchRan("title") \/ SearchRan("keyword")) =>
    /\ res.ret >= 0
    /\ {res.lines[i] : i \in 1..Len(res.lines)}
         = UNION {{LineOfEntry(ChainEntries(Undamaged(idx), b)[j]).line :
                     j \in {k \in ReachedBeforeFailure(idx, b) :
                              Delivered(ChainEntries(Undamaged(idx), b)[k])}} :
                  b \in WindowBuckets}

\* C26 witness: the head of one chain could not be read, and the search
\* delivered a record line from a bucket further on in the window.
FailureThenLaterBucket ==
  /\ SearchRan("title")
  /\ \E b1 \in WindowBuckets : \E b2 \in WindowBuckets :
       /\ b1 < b2
       /\ SlotReadable(idx, b1)
       /\ idx.heads[b1] \in idx.bad
       /\ \E j \in ReachedBeforeFailure(idx, b2) : \E i \in 1..Len(res.lines) :
            res.lines[i] = LineOfEntry(ChainEntries(Undamaged(idx), b2)[j]).line

\* The last call was search_by_title_and_update and it has returned.
TitleSearchReturned == pc = "idle" /\ res.op = "title"

\* C28: search_by_title_and_update returns -1, with both files closed, when
\* after the build attempt the index file or the record store cannot be
\* opened or the header cannot be read; over a readable header whose bucket
\* count is not positive it does not fail: it answers as it does over the
\* same file under a header that counts N_BUCKETS buckets.
HardFailuresCloseFiles ==
  TitleSearchReturned =>
    /\ (~Openable(idx) \/ ~store.exists \/ ~HeaderReadable(idx)) =>
         (res.ret = -1 /\ streams = {})
    /\ (/\ Openable(idx) /\ store.exists /\ HeaderReadable(idx)
        /\ idx.header.n_buckets <= 0) =>
         LET r == search_by_title_and_update(
                    [idx EXCEPT !.header.n_buckets = N_BUCKETS], store,
                    req.key, req.update, RESP_SIZE)
         IN  /\ res.ret >= 0
             /\ res.ret = r.ret
             /\ res.lines = r.lines
             /\ res.reads = r.reads

\* C28 witness: the index file was opened, the record store could not be, and
\* the search returned -1 with no stream left open.
StoreUnopenable ==
  /\ TitleSearchReturned
  /\ Openable(idx)
  /\ ~store.exists
  /\ res.ret = -1
  /\ streams = {}

\* C29: the count a search reports is the number of record lines it collected
\* or printed; an entry whose key matches but whose record cannot be read
\* from the record store adds nothing to it.
CountIsLinesDelivered ==
  (SearchRan("title") \/ SearchRan("keyword")) => res.ret = Len(res.lines)

(***************************************************************************)
(* build_index over an index file whose seeks, reads and writes fail       *)
(***************************************************************************)
\* The calls of one insertion that can fail, in the order they are made.
BuildFaults ==
  {"none", "seek_bucket", "read_bucket", "seek_end", "write_entry",
   "seek_bucket_write", "write_bucket"}

\* An insertion that links the new entry to itself.
InsertEntrySelfLinked(f, key, line_start, fault) ==
  LET h                == hash_string(key) % N_BUCKETS
      new_entry_offset == FileLength(f)
      entry            == [key        |-> strncpy(key, KEY_SIZE - 1),
                           csv_offset |-> line_start,
                           next_entry |-> new_entry_offset]
      appended         == [f EXCEPT !.entries = Append(f.entries, entry)]
  IN  IF fault \in {"seek_bucket", "seek_end", "write_entry"} THEN f
      ELSE IF fault \in {"seek_bucket_write", "write_bucket"} THEN appended
      ELSE [appended EXCEPT
              !.heads = [i \in DOMAIN f.heads \cup {h} |->
                           IF i = h THEN new_entry_offset ELSE f.heads[i]]]

\* One insertion of build_index in which the call named by fault fails; a
\* write that fails writes nothing.
InsertEntryIO(f, key, line_start, fault) ==
  LET h                == hash_string(key) % N_BUCKETS
      b                == IF fault = "read_bucket" THEN -1 ELSE ReadBucket(f, h)
      entry            == [key        |-> strncpy(key, KEY_SIZE - 1),
                           csv_offset |-> line_start,
                           next_entry |-> b]
      new_entry_offset == FileLength(f)
      appended         == [f EXCEPT !.entries = Append(f.entries, entry)]
  IN  IF fault \in {"seek_bucket", "seek_end", "write_entry"} THEN f
      ELSE IF fault \in {"seek_bucket_write", "write_bucket"} THEN appended
      ELSE [appended EXCEPT
              !.heads = [i \in DOMAIN f.heads \cup {h} |->
                           IF i = h THEN new_entry_offset ELSE f.heads[i]]]

\* The body of the loop of build_index for the line read at line_start.
BuildLineStepIO(f, line, line_start, fault) ==
  LET t == strtok_nth(line, KEY_COL)
  IN  IF ~t.found THEN f
      ELSE InsertEntryIO(f, limpiar_texto(t.token), line_start, fault)

\* FaultStore and a fourth line, filed with the second.
FourLineStore ==
  StoreOf(<< Record12("1", <<"w","e","b","b">>, <<"d","1">>),
             LineB,
             Record12("3", <<"w","e","b","b">>, <<"d","1">>),
             Record12("4", <<"W","e","b","t","y">>, <<"d","2">>) >>)

InitBuildFaults ==
  /\ store \in {FaultStore, FourLineStore}
  /\ idx = NoIndex
  /\ pc = "idle"
  /\ req = NoReq
  /\ csv_pos = 0
  /\ build_ret = <<>>
  /\ prior = NoIndex
  /\ res = NoRes
  /\ SideInit

\* One pass of the loop of build_index, with or without a failing call.
BuildLineIO ==
  /\ pc = "build"
  /\ LET g == fgets(store.data, csv_pos, LINE_SIZE)
     IN  /\ g.ok
         /\ \E fault \in BuildFaults :
              idx' = BuildLineStepIO(idx, g.line, csv_pos, fault)
         /\ csv_pos' = g.pos
  /\ UNCHANGED <<store, pc, req, build_ret, prior, res>>
  /\ UNCHANGED side_vars

NextBuildFaults ==
  \/ CallBuildIndex
  \/ BuildLineIO
  \/ BuildReturn

SpecBuildFaults == InitBuildFaults /\ [][NextBuildFaults]_vars

\* The record lines whose entries are reachable from a bucket head of f, as
\* the offsets at which they start.
ReachableLines(f) ==
  UNION {{ChainEntries(f, b)[j].csv_offset : j \in 1..Len(ChainEntries(f, b))} :
           b \in DOMAIN f.heads}

\* C27: a seek, read or write that fails for one line during the build skips
\* that line only: the build goes on and returns 0, and an entry that is
\* reachable from its bucket head stays reachable through every later pass of
\* the loop.
FailureSkipsOneLine ==
  [][pc = "build" => (/\ pc' = "build" \/ build_ret' = <<0>>
                      /\ ReachableLines(idx) \subseteq ReachableLines(idx'))]_vars

(***************************************************************************)
(* The front end and the worker over the two FIFOs                         *)
(***************************************************************************)
\* sizeof(Request), 64 + 256 + 64 + 256 bytes, and sizeof(Response).
SizeofRequest == 640

SizeofResponse == 2048

\* The searches the front end starts in one run.
MaxSearches == 2

\* What the user types at options 1 and 2 of the menu, trimmed.
UiTitles == { <<>>, <<"w","e","b">> }

\* The decimal digits; isdigit and the digit's value.
Digits == <<"0", "1", "2", "3", "4", "5", "6", "7", "8", "9">>

isdigit(c) == \E i \in 1..10 : Digits[i] = c

DigitValue(c) == (CHOOSE i \in 1..10 : Digits[i] = c) - 1

\* atoi of a string of digits.
RECURSIVE atoi(_)
atoi(s) ==
  IF s = <<>> THEN 0
  ELSE 10 * atoi(SubSeq(s, 1, Len(s) - 1)) + DigitValue(s[Len(s)])

\* A calendar in which every fourth year is a leap year.
is_leap_year_every_fourth(y) == y % 4 = 0

is_leap_year(y) ==
  IF y % 4 # 0 THEN FALSE
  ELSE IF y % 100 # 0 THEN TRUE
  ELSE IF y % 400 # 0 THEN FALSE
  ELSE TRUE

\* valid_ymd_format: 1 (TRUE) for YYYY-MM-DD with the month and the day in
\* range.
valid_ymd_format(s) ==
  IF Len(s) # 10 THEN FALSE
  ELSE IF s[5] # "-" \/ s[8] # "-" THEN FALSE
  ELSE IF \E i \in (1..10) \ {5, 8} : ~isdigit(s[i]) THEN FALSE
  ELSE LET y     == atoi(SubSeq(s, 1, 4))
           m     == atoi(SubSeq(s, 6, 7))
           d     == atoi(SubSeq(s, 9, 10))
           mdays == IF m = 2 THEN (IF is_leap_year(y) THEN 29 ELSE 28)
                    ELSE IF m \in {4, 6, 9, 11} THEN 30 ELSE 31
       IN  IF m < 1 \/ m > 12 THEN FALSE
           ELSE IF d < 1 THEN FALSE
           ELSE IF d > mdays THEN FALSE
           ELSE TRUE

\* input[strcspn(input, "\r\n")] = 0; trim_inplace(input): the line typed, cut
\* at its first end-of-line character and trimmed.
RECURSIVE strcspn_eol(_)
strcspn_eol(s) ==
  IF s = <<>> \/ s[1] \in {"\r", "\n"} THEN 0 ELSE 1 + strcspn_eol(Tail(s))

InputLine(typed) == trim_inplace(SubSeq(typed, 1, strcspn_eol(typed)))

\* The date year-month-day as it is typed.
DateText(year, month, day) == year \o <<"-">> \o month \o <<"-">> \o day

\* The dates of the two record lines of the exchanges.
DateA == DateText(<<"2","0","2","0">>, <<"0","2">>, <<"2","9">>)

DateB == DateText(<<"2","0","2","1">>, <<"1","1">>, <<"3","0">>)

\* What the user types at option 2 in the exchanges: nothing, the two dates,
\* and a day that is not in the calendar.
UiDates ==
  { <<>>, DateA, DateB \o <<"\n">>,
    DateText(<<"2","0","2","1">>, <<"0","2">>, <<"2","9">>) }

\* mkfifo(path, 0666); a path that is there stays (EEXIST).
mkfifo(F) == [F EXCEPT !.exists = TRUE]

\* open(path, O_RDONLY) is entered: the end counts as open, a writer that
\* waits in its open has met its partner, and the open has met its own when a
\* write end is open.
EnterOpenRead(F) ==
  [F EXCEPT !.readers = @ + 1, !.rmet = F.writers > 0, !.wmet = TRUE]

\* open(path, O_WRONLY) is entered.
EnterOpenWrite(F) ==
  [F EXCEPT !.writers = @ + 1, !.wmet = F.readers > 0, !.rmet = TRUE]

\* close of a read end, of a write end: the bytes in flight go with the last
\* end.
CloseRead(F) ==
  [F EXCEPT !.readers = @ - 1,
            !.buf = IF F.readers = 1 /\ F.writers = 0 THEN <<>> ELSE @]

CloseWrite(F) ==
  [F EXCEPT !.writers = @ - 1,
            !.buf = IF F.writers = 1 /\ F.readers = 0 THEN <<>> ELSE @]

\* read does not block: there are bytes, or no write end is open.
Readable(F) == F.buf # <<>> \/ F.writers = 0

\* read(fd, buf, n): the bytes of the message at the head, n at most, or 0
\* at the end of file.
ReadFifo(F, n) ==
  IF F.buf = <<>> THEN [rr |-> 0, body |-> <<>>, F |-> F]
  ELSE [rr   |-> IF Head(F.buf).size < n THEN Head(F.buf).size ELSE n,
        body |-> Head(F.buf).body,
        F    |-> [F EXCEPT !.buf = Tail(@)]]

\* write(fd, buf, n) of no more than PIPE_BUF bytes: all of them, at once.
WriteFifo(F, n, body) == [F EXCEPT !.buf = Append(@, [size |-> n, body |-> body])]

\* The Request option 3 of the menu puts together from the two buffers.
RequestOf(title_buf, date_buf) ==
  [field_name1 |-> IF title_buf # <<>> THEN <<"t","i","t","l","e">> ELSE <<>>,
   value1      |-> title_buf,
   field_name2 |-> IF date_buf # <<>>
                   THEN <<"u","p","d","a","t","e","_","d","a","t","e">> ELSE <<>>,
   value2      |-> date_buf]

\* A worker that answers NA whatever it read.
DaemonAnswerNA(r, f, st) == [result |-> NA, f |-> f]

\* The Response the worker computes from Request r over index file f and
\* record store st, and the index file it leaves.
DaemonAnswer(r, f, st) ==
  IF TitleOf(r) = <<>> THEN [result |-> NA, f |-> f]
  ELSE LET b == IF IndexMissing(f) THEN build_index(st, f, TRUE)
                ELSE [ret |-> 0, f |-> f]
           s == IF b.ret # 0 THEN [ret |-> -1, lines |-> <<>>]
                ELSE search_by_title_and_update(b.f, st, TitleOf(r), UpdateOf(r),
                                                RESP_SIZE)
       IN  [result |-> IF s.ret <= 0 THEN NA
                       ELSE strncpy(Flatten(s.lines), RESP_SIZE - 1),
            f      |-> b.f]

\* The record store of the exchanges, and the index files the worker may find:
\* none, or the one build_index wrote for the store.
FifoStore ==
  StoreOf(<< Record12("1", <<"w","e","b","b">>, DateA),
             Record12("2", <<"W","e","b","t","y">>, DateB) >>)

FifoIndexes == {NoIndex, BuildOf(FifoStore)}

InitFifo ==
  /\ store = FifoStore
  /\ idx \in FifoIndexes
  /\ pc = "idle"
  /\ req = NoReq
  /\ csv_pos = 0
  /\ build_ret = <<>>
  /\ prior = NoIndex
  /\ res = NoRes
  /\ request = NoRequest
  /\ response = <<>>
  /\ readers = <<>>
  /\ csv_call = NoCall
  /\ csv_result = NoResult
  /\ streams = {}
  /\ ui = UiAtMenu
  /\ daemon = DaemonAtTop
  /\ fifos \in {[req |-> NewFifo(a), res |-> NewFifo(b)] : a, b \in BOOLEAN}
  /\ sent = [searches |-> 0, requests |-> 0, responses |-> 0]

\* What the steps of the front end leave alone.
ui_frame ==
  <<store, idx, pc, req, csv_pos, build_ret, prior, res, request, response,
    readers, csv_call, csv_result, streams, daemon>>

\* What the steps of the worker over the FIFOs leave alone.
daemon_frame ==
  <<store, pc, req, csv_pos, build_ret, prior, res, readers, csv_call,
    csv_result, streams, ui>>

\* Option 1 of the menu: the line typed is trimmed and stored.
UiSetTitle(typed) ==
  /\ ui.pc = "menu"
  /\ ui' = [ui EXCEPT !.title_buf = strncpy(InputLine(typed), 255)]
  /\ UNCHANGED <<fifos, sent>>
  /\ UNCHANGED ui_frame

\* Option 2 of the menu: the line typed is trimmed and stored when it is
\* empty or valid_ymd_format takes it; else the menu comes back with the date
\* as it was.
UiSetDate(typed) ==
  /\ ui.pc = "menu"
  /\ LET input == InputLine(typed)
     IN  ui' = IF input # <<>> /\ ~valid_ymd_format(input) THEN ui
               ELSE [ui EXCEPT !.date_buf = strncpy(input, 255)]
  /\ UNCHANGED <<fifos, sent>>
  /\ UNCHANGED ui_frame

\* Option 4 of the menu.
UiQuit ==
  /\ ui.pc = "menu"
  /\ ui' = [ui EXCEPT !.pc = "exited"]
  /\ UNCHANGED <<fifos, sent>>
  /\ UNCHANGED ui_frame

\* Option 3 of the menu, up to the open of FIFO_REQ: the Request is put
\* together and both FIFOs are made when they are missing.
UiSearch ==
  /\ ui.pc = "menu"
  /\ sent.searches < MaxSearches
  /\ ui' = [ui EXCEPT !.pc = "open_req",
                      !.req = RequestOf(ui.title_buf, ui.date_buf),
                      !.res = <<>>]
  /\ fifos' = [req |-> mkfifo(fifos.req), res |-> mkfifo(fifos.res)]
  /\ sent' = [sent EXCEPT !.searches = @ + 1]
  /\ UNCHANGED ui_frame

\* open(FIFO_REQ, O_WRONLY) is entered.
UiOpenReq ==
  /\ ui.pc = "open_req"
  /\ ui' = [ui EXCEPT !.pc = "open_req_wait"]
  /\ fifos' = [fifos EXCEPT !.req = EnterOpenWrite(@)]
  /\ UNCHANGED sent
  /\ UNCHANGED ui_frame

\* open(FIFO_REQ, O_WRONLY) returns: a reader has opened.
UiOpenReqReturn ==
  /\ ui.pc = "open_req_wait"
  /\ fifos.req.wmet
  /\ ui' = [ui EXCEPT !.pc = "write"]
  /\ UNCHANGED <<fifos, sent>>
  /\ UNCHANGED ui_frame

\* The Request is written and the write end closed; a write that no reader
\* takes makes the call return -1.
UiWrite ==
  /\ ui.pc = "write"
  /\ IF fifos.req.readers = 0
     THEN /\ ui' = [ui EXCEPT !.pc = "menu", !.ok = -1]
          /\ fifos' = [fifos EXCEPT !.req = CloseWrite(@)]
          /\ UNCHANGED sent
     ELSE /\ ui' = [ui EXCEPT !.pc = "open_res"]
          /\ fifos' = [fifos EXCEPT
                         !.req = CloseWrite(WriteFifo(@, SizeofRequest, ui.req))]
          /\ sent' = [sent EXCEPT !.requests = @ + 1]
  /\ UNCHANGED ui_frame

\* open(FIFO_RES, O_RDONLY) is entered.
UiOpenRes ==
  /\ ui.pc = "open_res"
  /\ ui' = [ui EXCEPT !.pc = "open_res_wait"]
  /\ fifos' = [fifos EXCEPT !.res = EnterOpenRead(@)]
  /\ UNCHANGED sent
  /\ UNCHANGED ui_frame

\* open(FIFO_RES, O_RDONLY) returns: a writer has opened.
UiOpenResReturn ==
  /\ ui.pc = "open_res_wait"
  /\ fifos.res.rmet
  /\ ui' = [ui EXCEPT !.pc = "read"]
  /\ UNCHANGED <<fifos, sent>>
  /\ UNCHANGED ui_frame

\* The Response is read, the read end closed and the call returns: 0 with the
\* Response when all of it was read, else -1.
UiRead ==
  /\ ui.pc = "read"
  /\ Readable(fifos.res)
  /\ LET r == ReadFifo(fifos.res, SizeofResponse)
     IN  /\ fifos' = [fifos EXCEPT !.res = CloseRead(r.F)]
         /\ ui' = IF r.rr # SizeofResponse
                  THEN [ui EXCEPT !.pc = "menu", !.ok = -1]
                  ELSE [ui EXCEPT !.pc = "menu", !.ok = 0, !.res = r.body]
  /\ UNCHANGED sent
  /\ UNCHANGED ui_frame

\* open(FIFO_REQ, O_RDONLY) is entered; the FIFO is made first when the path
\* is missing.
DaemonOpenReq ==
  /\ daemon.pc = "open_req"
  /\ daemon' = [daemon EXCEPT !.pc = "open_req_wait"]
  /\ fifos' = [fifos EXCEPT !.req = EnterOpenRead(mkfifo(@))]
  /\ UNCHANGED <<idx, request, response, sent>>
  /\ UNCHANGED daemon_frame

\* open(FIFO_REQ, O_RDONLY) returns: a writer has opened.
DaemonOpenReqReturn ==
  /\ daemon.pc = "open_req_wait"
  /\ fifos.req.rmet
  /\ daemon' = [daemon EXCEPT !.pc = "read"]
  /\ UNCHANGED <<idx, request, response, fifos, sent>>
  /\ UNCHANGED daemon_frame

\* The Request is read and the read end closed; a read of fewer bytes than a
\* Request sends the worker back to the top of its loop.
DaemonRead ==
  /\ daemon.pc = "read"
  /\ Readable(fifos.req)
  /\ LET r == ReadFifo(fifos.req, SizeofRequest)
     IN  /\ fifos' = [fifos EXCEPT !.req = CloseRead(r.F)]
         /\ request' = IF r.rr = 0 THEN NoRequest ELSE r.body
         /\ daemon' = [pc |-> IF r.rr # SizeofRequest THEN "open_req" ELSE "serve",
                       rr |-> r.rr]
  /\ UNCHANGED <<idx, response, sent>>
  /\ UNCHANGED daemon_frame

\* The title and the filter are taken from the Request, the search is made
\* and the Response filled.
DaemonServe ==
  /\ daemon.pc = "serve"
  /\ LET a == DaemonAnswer(request, idx, store)
     IN  /\ response' = a.result
         /\ idx' = a.f
  /\ daemon' = [daemon EXCEPT !.pc = "open_res"]
  /\ UNCHANGED <<request, fifos, sent>>
  /\ UNCHANGED daemon_frame

\* open(FIFO_RES, O_WRONLY) is entered; the FIFO is made first when the path
\* is missing.
DaemonOpenRes ==
  /\ daemon.pc = "open_res"
  /\ daemon' = [daemon EXCEPT !.pc = "open_res_wait"]
  /\ fifos' = [fifos EXCEPT !.res = EnterOpenWrite(mkfifo(@))]
  /\ UNCHANGED <<idx, request, response, sent>>
  /\ UNCHANGED daemon_frame

\* open(FIFO_RES, O_WRONLY) returns: a reader has opened.
DaemonOpenResReturn ==
  /\ daemon.pc = "open_res_wait"
  /\ fifos.res.wmet
  /\ daemon' = [daemon EXCEPT !.pc = "write"]
  /\ UNCHANGED <<idx, request, response, fifos, sent>>
  /\ UNCHANGED daemon_frame

\* The Response is written, the write end closed, and the loop starts over.
DaemonWrite ==
  /\ daemon.pc = "write"
  /\ fifos' = [fifos EXCEPT
                 !.res = CloseWrite(IF fifos.res.readers = 0 THEN @
                                    ELSE WriteFifo(@, SizeofResponse, response))]
  /\ sent' = [sent EXCEPT !.responses = @ + 1]
  /\ daemon' = [daemon EXCEPT !.pc = "open_req"]
  /\ UNCHANGED <<idx, request, response>>
  /\ UNCHANGED daemon_frame

\* The steps of send_request_and_get_response after option 3 was chosen.
UiExchange ==
  \/ UiOpenReq
  \/ UiOpenReqReturn
  \/ UiWrite
  \/ UiOpenRes
  \/ UiOpenResReturn
  \/ UiRead

\* The steps of the loop of main of the worker on the FIFOs.
DaemonExchange ==
  \/ DaemonOpenReq
  \/ DaemonOpenReqReturn
  \/ DaemonRead
  \/ DaemonOpenRes
  \/ DaemonOpenResReturn
  \/ DaemonWrite

\* The loop of main of the worker.
DaemonLoop ==
  \/ DaemonExchange
  \/ DaemonServe

\* The worker gets from the Request it read to the open of FIFO_RES: what
\* DaemonServe does to the position of the worker.
DaemonServed ==
  /\ daemon.pc = "serve"
  /\ daemon' = [daemon EXCEPT !.pc = "open_res"]

NextFifo ==
  \/ \E input \in UiTitles : UiSetTitle(input)
  \/ \E input \in UiDates : UiSetDate(input)
  \/ UiQuit
  \/ UiSearch
  \/ UiExchange
  \/ DaemonLoop

\* Both processes run: a step of the exchange, or of the worker's loop, that
\* stays possible is taken; the search the worker makes between its read and
\* its open of FIFO_RES ends.  What the user chooses at the menu is left free.
SpecFifo ==
  /\ InitFifo
  /\ [][NextFifo]_vars
  /\ WF_vars(UiExchange)
  /\ WF_vars(DaemonExchange)
  /\ WF_daemon(DaemonServed)

\* The front end is inside send_request_and_get_response.
InSearch == ui.pc \notin {"menu", "exited"}

\* The front end has started a search and not yet written its Request.
RequestDue == ui.pc \in {"open_req", "open_req_wait", "write"}

\* What a search for the title and the date of Request r delivers over the
\* index file of the record store: the record lines, or NA when there is no
\* title or no record.
ExpectedResponse(r) ==
  LET title == trim_inplace(r.value1)
      s     == search_by_title_and_update(BuildOf(store), store, title, r.value2,
                                          RESP_SIZE)
  IN  IF title = <<>> \/ s.ret <= 0 THEN NA
      ELSE strncpy(Flatten(s.lines), RESP_SIZE - 1)

\* Requests and Responses are written one for one, search by search; the
\* worker works on, and answers, the Request the front end wrote, all of it;
\* and the call of the front end returns with the Response to its Request.
OneForOne ==
  /\ sent.requests <= sent.searches /\ sent.searches <= sent.requests + 1
  /\ sent.responses <= sent.requests /\ sent.requests <= sent.responses + 1
  /\ ~InSearch => (sent.requests = sent.searches /\ sent.responses = sent.searches)
  /\ daemon.pc \in {"serve", "open_res", "open_res_wait", "write"} =>
       (daemon.rr = SizeofRequest /\ request = ui.req /\ InSearch)
  /\ (~InSearch /\ sent.searches > 0) =>
       (ui.ok = 0 /\ ui.res = ExpectedResponse(ui.req))

\* C30: with one front end and one worker running, every search the front end
\* starts writes one Request, the worker reads it and writes one Response
\* computed from it, and the front end in the end reads that Response; no
\* open of a FIFO blocks for ever (the worker's open of FIFO_REQ returns once
\* a Request is due); and the worker writes no Response unless it read a
\* Request in full.
FifoExchange ==
  /\ []OneForOne
  /\ InSearch ~> (ui.pc = "menu")
  /\ (ui.pc = "open_req_wait") ~> (ui.pc = "write")
  /\ (ui.pc = "open_res_wait") ~> (ui.pc = "read")
  /\ (daemon.pc = "open_req_wait" /\ RequestDue) ~> (daemon.pc = "read")
  /\ (daemon.pc = "open_res_wait") ~> (daemon.pc = "write")

\* C30 witness: every search of the run was answered, the last one with
\* record lines.
ExchangedTwice ==
  /\ ui.pc = "menu"
  /\ sent.searches = MaxSearches
  /\ sent.responses = MaxSearches
  /\ ui.ok = 0
  /\ ui.res \notin {NA, <<>>}

(***************************************************************************)
(* The two slots of a Request                                              *)
(***************************************************************************)
\* Request r with its two name/value pairs swapped.
Swapped(r) ==
  [field_name1 |-> r.field_name2, value1 |-> r.value2,
   field_name2 |-> r.field_name1, value2 |-> r.value1]

\* One pass of the loop of main for Request r over index file f and record
\* store st, from the Request read to the Response filled: result is
\* res.result and f the index file left.  creatable tells whether build_index,
\* should it run, can create the index file.
WorkerAnswer(r, f, st, creatable) ==
  IF TitleOf(r) = <<>> THEN [result |-> NA, f |-> f]
  ELSE LET b == IF IndexMissing(f) THEN build_index(st, f, creatable)
                ELSE [ret |-> 0, f |-> f]
           s == IF b.ret # 0 THEN [ret |-> -1, lines |-> <<>>]
                ELSE search_by_title_and_update(b.f, st, TitleOf(r), UpdateOf(r),
                                                RESP_SIZE)
       IN  [result |-> IF s.ret <= 0 THEN NA
                       ELSE strncpy(Flatten(s.lines), RESP_SIZE - 1),
            f      |-> b.f]

\* C31: the answer of the worker does not depend on which slot of the Request
\* carries which criterion: the Response written for a Request that names no
\* field twice is the Response the same pass writes for the Request with its
\* two name/value pairs swapped.
SlotsInterchangeable ==
  [][\E creatable \in BOOLEAN :
       /\ idx' = WorkerAnswer(request', idx, store, creatable).f
       /\ response' = WorkerAnswer(Swapped(request'), idx, store, creatable).result
       /\ idx' = WorkerAnswer(Swapped(request'), idx, store, creatable).f]_vars

\* C31 witness: the worker answered, with record lines, a Request that
\* carries the filter in its first slot and the title in its second.
SwappedRequestAnswered ==
  /\ IsUpdateName(request.field_name1)
  /\ field_is(request.field_name2, <<"t","i","t","l","e">>)
  /\ request.value1 # <<>>
  /\ response \notin {NA, <<>>}

\* ---------------------------------------------------------------------------
\* The date criterion of the menu
\* ---------------------------------------------------------------------------

\* Dates typed at option 2: the last days of February in a year that is not
\* a multiple of 4, in a multiple of 100 and in a multiple of 400; the last
\* days of a month of 30 and of a month of 31 days; months and days out of
\* range.
FebruaryInputs ==
  { DateText(<<"1","9","0","0">>, <<"0","2">>, <<"2","8">>),
    DateText(<<"1","9","0","0">>, <<"0","2">>, <<"2","9">>),
    DateText(<<"2","0","0","0">>, <<"0","2">>, <<"2","9">>),
    DateText(<<"2","0","2","3">>, <<"0","2">>, <<"2","9">>),
    DateText(<<"2","0","2","0">>, <<"0","2">>, <<"3","0">>) }

MonthEndInputs ==
  { DateText(<<"2","0","2","3">>, <<"0","4">>, <<"3","0">>),
    DateText(<<"2","0","2","3">>, <<"0","4">>, <<"3","1">>),
    DateText(<<"2","0","2","3">>, <<"1","2">>, <<"3","1">>),
    DateText(<<"2","0","2","3">>, <<"1","2">>, <<"3","2">>) }

OutOfRangeInputs ==
  { DateText(<<"2","0","2","3">>, <<"0","0">>, <<"1","0">>),
    DateText(<<"2","0","2","3">>, <<"1","3">>, <<"1","0">>),
    DateText(<<"2","0","2","3">>, <<"0","1">>, <<"0","0">>) }

\* Lines typed at option 2 that are not of the form YYYY-MM-DD, a blank line,
\* and a date typed with blanks around it.
OddInputs ==
  { <<"2","0","2","3","-","2","-","2","8">>,
    <<"2","0","2","3","/","0","2","/","2","8">>,
    <<"2","0","a","3","-","0","2","-","2","8">>,
    <<"2","0","2","4","-","0","2","-","2","9","x">>,
    <<"2","0","2","4","0","0","2","-","2","9">>,
    <<" "," ","\n">>,
    <<" ","2","0","2","4","-","0","2","-","2","9"," ","\r","\n">> }

DateInputs ==
  UiDates \cup FebruaryInputs \cup MonthEndInputs \cup OutOfRangeInputs
    \cup OddInputs

NextMenu ==
  \/ \E typed \in UiTitles : UiSetTitle(typed)
  \/ \E typed \in DateInputs : UiSetDate(typed)
  \/ UiQuit
  \/ UiSearch
  \/ UiExchange
  \/ DaemonLoop

SpecMenu == InitFifo /\ [][NextMenu]_vars

\* The calendar: the number n written with two digits, the length of month m
\* of year y, and the texts that are a date of the calendar.
TwoDigits(n) == <<Digits[(n \div 10) + 1], Digits[(n % 10) + 1]>>

MonthLength(y, m) ==
  IF m = 2
  THEN (IF (y % 4 = 0 /\ y % 100 # 0) \/ y % 400 = 0 THEN 29 ELSE 28)
  ELSE <<31, 0, 31, 30, 31, 30, 31, 31, 30, 31, 30, 31>>[m]

CalendarDate(s) ==
  /\ Len(s) = 10
  /\ \A i \in 1..4 : isdigit(s[i])
  /\ s[5] = "-"
  /\ s[8] = "-"
  /\ LET y == 1000 * DigitValue(s[1]) + 100 * DigitValue(s[2])
              + 10 * DigitValue(s[3]) + DigitValue(s[4])
     IN  \E m \in 1..12 :
           /\ <<s[6], s[7]>> = TwoDigits(m)
           /\ \E d \in 1..MonthLength(y, m) : <<s[9], s[10]>> = TwoDigits(d)

StoredDate(s) == s = <<>> \/ CalendarDate(s)

\* C32: after any sequence of menu inputs the stored date criterion is empty
\* or a date of the calendar written YYYY-MM-DD (month 1..12, day within the
\* length of the month, February 29 only in leap years); a line typed at
\* option 2 that is neither empty nor such a date leaves the stored date as
\* it was; and the update_date value of every Request, built, sent or
\* received, is a date that was stored: option 3 copies the stored date.
MenuDatesValid ==
  /\ [](/\ StoredDate(ui.date_buf)
        /\ StoredDate(ui.req.value2)
        /\ StoredDate(request.value2))
  /\ [][\A typed \in DateInputs :
          UiSetDate(typed) =>
            LET line == InputLine(typed)
            IN  ui'.date_buf = IF StoredDate(line) THEN line ELSE ui.date_buf]_vars
  /\ [][UiSearch =>
          /\ ui'.req.value2 = ui.date_buf
          /\ ui'.req.field_name2 =
               IF ui.date_buf = <<>> THEN <<>>
               ELSE <<"u","p","d","a","t","e","_","d","a","t","e">>]_vars
  /\ [][DaemonRead /\ daemon'.pc = "serve" => request' = ui.req]_vars

\* C32 witness: the worker received a Request whose update_date is February
\* 29 of the leap year 2000, and the date stored since is another one.
LeapDayRequested ==
  /\ request.value2 = DateText(<<"2","0","0","0">>, <<"0","2">>, <<"2","9">>)
  /\ IsUpdateName(request.field_name2)
  /\ ui.date_buf \notin {<<>>, request.value2}
  /\ ui.pc = "menu"

\* ---------------------------------------------------------------------------
\* The order of the entries of a chain
\* ---------------------------------------------------------------------------

\* The offset a walk is at after n reads from offset off: -1 once the chain
\* has ended or a read has failed.
RECURSIVE Follow(_, _, _)
Follow(f, off, n) ==
  IF n = 0 \/ off = -1 THEN off
  ELSE IF ~EntryReadable(f, off) THEN -1
  ELSE Follow(f, ReadEntry(f, off).next_entry, n - 1)

\* Each entry of f links to nothing or to an entry written before it.
LinksDescend(f) ==
  \A k \in 1..Len(f.entries) :
    \/ f.entries[k].next_entry = -1
    \/ f.entries[k].next_entry < EntryOffset(k)

\* No walk from a bucket head of f comes back to an entry: it has ended
\* after as many reads as the file has entries.
ChainsAcyclic(f) ==
  \A b \in DOMAIN f.heads : Follow(f, ReadBucket(f, b), Len(f.entries)) = -1

\* The while loops of both searches over the chain of every bucket of f have
\* ended after as many iterations as the file has entries.
ChainLoopsEnd(f, data) ==
  \A b \in DOMAIN f.heads :
    LET st0 == [found |-> 0, used |-> 0, lines |-> <<>>, reads |-> <<>>,
                stop |-> FALSE, current |-> -1]
    IN  /\ \A title \in FaultTitles : \A update \in {<<>>, <<"d","1">>} :
             LET st == TitleChain(f, data, ReadBucket(f, b), st0, title, update,
                                  RESP_SIZE)
             IN  st.current = -1 \/ ~TitleCapOpen(st.found) \/ st.stop
        /\ \A keyword \in FaultTitles : \A exact \in BOOLEAN :
             LET st == KeywordChain(f, data, ReadBucket(f, b), st0, keyword, exact)
             IN  st.current = -1 \/ st.stop

\* C33: in every index build_index builds, whichever calls fail on the way,
\* the next_entry of each entry is -1 or strictly smaller than the offset of
\* the entry itself; so no chain of a bucket comes back to an entry, and the
\* chain loops of both searches over the index end.
ChainsRunBackwards ==
  /\ LinksDescend(idx)
  /\ ChainsAcyclic(idx)
  /\ ChainLoopsEnd(idx, store.data)

\* C33 witness: the build returned 0 with an entry that heads its chain and
\* links, past an entry written in between, to one written earlier.
ChainSkipsBack ==
  /\ pc = "idle"
  /\ build_ret = <<0>>
  /\ \E b \in DOMAIN idx.heads : \E k \in 3..Len(idx.entries) :
       /\ ReadBucket(idx, b) = EntryOffset(k)
       /\ idx.entries[k].next_entry \in {EntryOffset(j) : j \in 1..(k - 2)}
       /\ Follow(idx, EntryOffset(k), 2) = -1

\* ---------------------------------------------------------------------------
\* The result buffer of search_by_title_and_update
\* ---------------------------------------------------------------------------

\* The lines the last title search would collect in a buffer that every line
\* of the record store fits at once.
CollectedUnbounded ==
  search_by_title_and_update(idx, store, req.key, req.update,
                             Len(store.data) + 2).lines

\* C34: the result buffer of search_by_title_and_update holds a concatenation
\* of whole record lines, shorter in all than the buffer (RESP_SIZE in the
\* worker); a line is appended only when it fits whole, the search stops at
\* the first accepted line that does not fit, and the count returned is the
\* number of lines in the buffer.
BufferHoldsWholeLines ==
  SearchRan("title") /\ idx.exists =>
    LET n == Len(res.lines)
    IN  /\ \A i \in 1..n : \E r \in RecordLines(store) : r.line = res.lines[i]
        /\ Len(Flatten(res.lines)) < RESP_SIZE
        /\ res.ret = n
        /\ n <= Len(CollectedUnbounded)
        /\ \A i \in 1..n : res.lines[i] = CollectedUnbounded[i]
        /\ n < Len(CollectedUnbounded) =>
             Len(Flatten(res.lines)) + Len(CollectedUnbounded[n + 1]) + 1 >= RESP_SIZE

====
